---- MODULE Spec2Model ----
(***************************************************************************)
(* Model of the 3PL order pipeline (noisycontents/3pl-logis).              *)
(*                                                                         *)
(* Text is modelled as a sequence of characters, each character a string.  *)
(* A Hangul syllable is written as one string in angle brackets ("<seo>"). *)
(* A SKU is a sequence of tokens: a product chunk ("PROD"), the separators *)
(* "-" and "/", and the three bracketed tags as single tokens (no tag      *)
(* contains a separator, so no split can cut a tag in two).                *)
(***************************************************************************)
EXTENDS Integers, Sequences, FiniteSets, TLC

VARIABLES
    pc,             \* position of main() / process_site_orders()
    site,           \* storefront being processed by process_site_orders
    env,            \* environment variables that are set
    df,             \* DataFrame of process_site_orders
    shipping_df,    \* df without the reservation rows
    ems,            \* rows of today's shared EMS manifest file
    dom,            \* rows of today's domestic manifest file, per storefront
    results,        \* processing_results (ProcessingResults singleton)
    sent,           \* status-change batches handed to update_orders_batch
    runs,           \* number of main() runs started today
    sheet,          \* rows of the carrier tracking sheet
    order_tracking_map, \* process_tracking_updates: keys in insertion order
    friend,         \* friend-bundle state (remote orders, calls, lookup, created)
    main_calls,     \* main(): the calls of the current run, in order
    calendar,       \* today (KST) and the holiday tables
    windows         \* get_date_range: the windows of the last two executed runs

vars == <<pc, site, env, df, shipping_df, ems, dom, results,
          sent, runs, sheet, order_tracking_map, friend, main_calls,
          calendar, windows>>

(***************************************************************************)
(* Bounds                                                                  *)
(***************************************************************************)
MaxRuns == 2
MaxItems == 2
MaxSheetRows == 2
MaxCalls == 3
MaxWrites == 2
MaxBatch == 2
MaxOrderIds == 41
MaxSegments == 2
MaxPieces == 5
MaxSkuTokens == 8
MaxWords == 3
MaxDays == 22
MaxHolidays == 14

(***************************************************************************)
(* Characters and strings                                                  *)
(***************************************************************************)
\* the syllables of the addresses, names and keywords of this model:
\* <do> <si> are the administrative suffixes, <dae><han><min><guk> spell the
\* two Korean-script country names, <sa><seo><ham> spell "PO box"
HangulChars == {"<seo>", "<ul>", "<kim>", "<gil>", "<do>", "<si>",
                "<dae>", "<han>", "<min>", "<guk>", "<sa>", "<ham>",
                "<teuk>", "<byeol>", "<gwang>", "<yeok>"}
LowerCase == <<"a","b","c","d","e","f","g","h","i","j","k","l","m",
               "n","o","p","q","r","s","t","u","v","w","x","y","z">>
UpperCase == <<"A","B","C","D","E","F","G","H","I","J","K","L","M",
               "N","O","P","Q","R","S","T","U","V","W","X","Y","Z">>
Digits == <<"0","1","2","3","4","5","6","7","8","9">>

Range(s) == {s[i] : i \in DOMAIN s}

LowerSet == Range(LowerCase)
UpperSet == Range(UpperCase)

IsLetter(c) == c \in LowerSet \/ c \in UpperSet
IsDigit(c) == \E i \in DOMAIN Digits : Digits[i] = c
IsSpace(c) == c = " "

\* str.upper and str.lower on the letters
ToUpper == [c \in LowerSet |-> UpperCase[CHOOSE i \in DOMAIN LowerCase : LowerCase[i] = c]]
ToLower == [c \in UpperSet |-> LowerCase[CHOOSE i \in DOMAIN UpperCase : UpperCase[i] = c]]

upper(c) == IF c \in LowerSet THEN ToUpper[c] ELSE c

lower(c) == IF c \in UpperSet THEN ToLower[c] ELSE c

UpperStr(s) == [i \in DOMAIN s |-> upper(s[i])]
LowerStr(s) == [i \in DOMAIN s |-> lower(s[i])]

\* pat occurs in s at position i
MatchAt(s, pat, i) ==
    /\ i >= 1
    /\ i + Len(pat) - 1 <= Len(s)
    /\ \A k \in 1..Len(pat) : s[i + k - 1] = pat[k]

\* Python "pat in s"
Contains(s, pat) == \E i \in 1..(Len(s) + 1) : MatchAt(s, pat, i)

\* str(n) of a non-negative integer
RECURSIVE str(_)
str(n) == IF n < 10 THEN <<Digits[n + 1]>>
          ELSE str(n \div 10) \o <<Digits[(n % 10) + 1]>>

\* s.strip() (whitespace)
RECURSIVE strip(_)
strip(s) ==
    IF s # <<>> /\ IsSpace(Head(s)) THEN strip(Tail(s))
    ELSE IF s # <<>> /\ IsSpace(s[Len(s)]) THEN strip(SubSeq(s, 1, Len(s) - 1))
    ELSE s

(***************************************************************************)
(* split and join                                                          *)
(***************************************************************************)
\* s.split(sep) for a one-character separator
RECURSIVE split_on(_, _)
split_on(s, sep) ==
    IF \A i \in DOMAIN s : s[i] # sep THEN <<s>>
    ELSE LET i == CHOOSE j \in DOMAIN s :
                      s[j] = sep /\ \A k \in 1..(j - 1) : s[k] # sep
         IN <<SubSeq(s, 1, i - 1)>> \o split_on(SubSeq(s, i + 1, Len(s)), sep)

\* s.split(): the whitespace-separated words
split_words(s) == SelectSeq(split_on(s, " "), LAMBDA w : w # <<>>)

\* sep.join(parts)
RECURSIVE join(_, _)
join(parts, sep) ==
    IF parts = <<>> THEN <<>>
    ELSE IF Len(parts) = 1 THEN parts[1]
    ELSE parts[1] \o sep \o join(Tail(parts), sep)

(***************************************************************************)
(* SKU                                                                     *)
(***************************************************************************)
TagDigital == "[digital]"
TagB2B == "[B2B]"
TagReservation == "[reservation]"
Tags == {TagDigital, TagB2B, TagReservation}

\* Series.str.contains("\\[tag\\]"): the literal tag occurs in the SKU
str_contains(sku, tag) == \E i \in DOMAIN sku : sku[i] = tag

\* raw_sku.split('-')[0] if raw_sku else ''
sku_for_status(raw_sku) == IF raw_sku # <<>> THEN split_on(raw_sku, "-")[1] ELSE <<>>

\* re.sub(r'\[.*?\]', '', sku_for_status).strip()
clean_sku(raw_sku) == SelectSeq(sku_for_status(raw_sku), LAMBDA t : t \notin Tags)

(***************************************************************************)
(* Addresses and names                                                     *)
(***************************************************************************)
\* regex \b just before position i; \w of a Python 3 str pattern: Unicode
\* letters, digits and underscore
WordBoundary(s, i) ==
    LET IsW(k) ==
            /\ k \in 1..Len(s)
            /\ (IsLetter(s[k]) \/ IsDigit(s[k]) \/ s[k] \in HangulChars \/ s[k] = "_")
    IN IsW(i - 1) # IsW(i)

\* regex \bpat\b (IGNORECASE) matches the upper-case pattern pat at position i
WordMatchAt(s, pat, i) ==
    /\ i >= 1
    /\ i + Len(pat) - 1 <= Len(s)
    /\ \A k \in 1..Len(pat) : upper(s[i + k - 1]) = pat[k]
    /\ WordBoundary(s, i)
    /\ WordBoundary(s, i + Len(pat))

KR == <<"K", "R">>
KOREA == <<"K", "O", "R", "E", "A">>
SOUTH_KOREA == <<"S", "O", "U", "T", "H", " ", "K", "O", "R", "E", "A">>
DAEHANMINGUK == <<"<dae>", "<han>", "<min>", "<guk>">>
HANGUK == <<"<han>", "<guk>">>

has_korean_characters(text) == \E i \in DOMAIN text : text[i] \in HangulChars

\* KR anywhere in the line, also inside a longer word
is_korean_address_anywhere(addr) ==
    has_korean_characters(addr) \/ Contains(UpperStr(addr), KR)

is_korean_address(addr) ==
    \/ has_korean_characters(addr)
    \/ \E i \in DOMAIN addr : WordMatchAt(addr, KR, i)
    \/ \E keyword \in {KOREA, SOUTH_KOREA, DAEHANMINGUK, HANGUK} :
          Contains(UpperStr(addr), keyword)

\* "<kanji>", "<hira>", "<kata>": a CJK ideograph, a Hiragana and a Katakana
\* character; "<e'>": a Latin-1 or Latin Extended-A letter
has_non_english_characters(text) ==
    LET AllowedPunct == {".", ",", "-", "(", ")", "/", "#", "&", "'", "\""}
        IsAllowedLatin(c) ==
            IsLetter(c) \/ IsDigit(c) \/ IsSpace(c) \/ c \in AllowedPunct \/ c = "<e'>"
    IN \/ \E i \in DOMAIN text : text[i] \in HangulChars
       \/ \E i \in DOMAIN text : text[i] = "<kanji>"
       \/ \E i \in DOMAIN text : text[i] = "<hira>"
       \/ \E i \in DOMAIN text : text[i] = "<kata>"
       \/ strip(SelectSeq(text, LAMBDA c : ~IsAllowedLatin(c))) # <<>>

\* re.sub(r'\bpat\b', '', s, flags=re.IGNORECASE), scanning from position i
RECURSIVE sub_word(_, _, _)
sub_word(s, pat, i) ==
    IF i > Len(s) THEN <<>>
    ELSE IF WordMatchAt(s, pat, i) THEN sub_word(s, pat, i + Len(pat))
    ELSE <<s[i]>> \o sub_word(s, pat, i + 1)

\* first position >= i that holds no whitespace
RECURSIVE skip_space(_, _)
skip_space(s, i) == IF i <= Len(s) /\ IsSpace(s[i]) THEN skip_space(s, i + 1) ELSE i

\* re.sub(r'\s*,\s*,\s*', ', ', s); double_comma_end: the end (exclusive) of
\* a match at position i, or 0
RECURSIVE sub_double_comma(_, _)
sub_double_comma(s, i) ==
    LET j == skip_space(s, i)
        k == skip_space(s, j + 1)
        double_comma_end ==
            IF j <= Len(s) /\ s[j] = "," /\ k <= Len(s) /\ s[k] = ","
            THEN skip_space(s, k + 1) ELSE 0
    IN IF i > Len(s) THEN <<>>
       ELSE IF double_comma_end # 0
            THEN <<",", " ">> \o sub_double_comma(s, double_comma_end)
       ELSE <<s[i]>> \o sub_double_comma(s, i + 1)

\* re.sub(r'\s+', ' ', s)
RECURSIVE sub_spaces(_, _)
sub_spaces(s, i) ==
    IF i > Len(s) THEN <<>>
    ELSE IF IsSpace(s[i]) THEN <<" ">> \o sub_spaces(s, skip_space(s, i))
    ELSE <<s[i]>> \o sub_spaces(s, i + 1)

\* s.strip(' ,')
RECURSIVE strip_space_comma(_)
strip_space_comma(s) ==
    IF s # <<>> /\ Head(s) \in {" ", ","} THEN strip_space_comma(Tail(s))
    ELSE IF s # <<>> /\ s[Len(s)] \in {" ", ","}
         THEN strip_space_comma(SubSeq(s, 1, Len(s) - 1))
    ELSE s

RECURSIVE remove_patterns(_, _)
remove_patterns(s, n) ==
    LET patterns_to_remove == <<KR, KOREA, SOUTH_KOREA, DAEHANMINGUK, HANGUK>>
    IN IF n > Len(patterns_to_remove) THEN s
       ELSE remove_patterns(sub_word(s, patterns_to_remove[n], 1), n + 1)

clean_korean_address(addr) ==
    strip_space_comma(sub_spaces(sub_double_comma(remove_patterns(addr, 1), 1), 1))

(***************************************************************************)
(* build_clean_address                                                     *)
(***************************************************************************)

\* a loop that keeps every word
dedupe_words_keep_all(words, cleaned_words) == cleaned_words \o words

\* drop a word equal to the word kept just before it
RECURSIVE dedupe_words(_, _)
dedupe_words(words, cleaned_words) ==
    IF words = <<>> THEN cleaned_words
    ELSE IF cleaned_words = <<>> \/ Head(words) # cleaned_words[Len(cleaned_words)]
         THEN dedupe_words(Tail(words), Append(cleaned_words, Head(words)))
    ELSE dedupe_words(Tail(words), cleaned_words)

build_clean_address(shipping) ==
    LET korea_names == {KR, KOREA, SOUTH_KOREA, DAEHANMINGUK, HANGUK}
        address_1 == strip(shipping.address_1)
        address_2 == strip(shipping.address_2)
        city == strip(shipping.city)
        state == strip(shipping.state)
        country == strip(shipping.country)
        address_parts ==
            (IF address_1 # <<>> THEN <<address_1>> ELSE <<>>)
            \o (IF address_2 # <<>> THEN <<address_2>> ELSE <<>>)
        potential_regions ==
            (IF state # <<>> THEN <<state>> ELSE <<>>)
            \o (IF city # <<>> /\ city # state THEN <<city>> ELSE <<>>)
            \o (IF country # <<>> /\ UpperStr(country) \notin korea_names
                THEN <<country>> ELSE <<>>)
        region_parts ==
            SelectSeq(potential_regions, LAMBDA region :
                ~\E o \in DOMAIN potential_regions :
                    /\ region # potential_regions[o]
                    /\ Contains(potential_regions[o], region))
        is_korean ==
            \/ state # <<>> /\ \E kw \in {<<"<do>">>, <<"<si>">>, <<"<teuk>", "<byeol>", "<si>">>,
                                           <<"<gwang>", "<yeok>", "<si>">>} :
                                  Contains(state, kw)
            \/ country # <<>> /\ UpperStr(country) \in korea_names
        final_parts == IF is_korean THEN region_parts \o address_parts
                       ELSE address_parts \o region_parts
        full_address == sub_spaces(strip(join(final_parts, <<" ">>)), 1)
    IN join(dedupe_words(split_words(full_address), <<>>), <<" ">>)

(***************************************************************************)
(* Geocoder (mini_international.py)                                        *)
(***************************************************************************)
\* Python None, and the truth value of a string or None
None == <<"<None>">>
Truthy(x) == x # None /\ x # <<>>

\* components: the long_name of each component type ("" when absent)
reconstruct_address_from_components(components, original_address) ==
    LET \* any(word in part_lower for word in text.lower().split() if len(word) > 3)
        any_long_word_in(text, part_lower) ==
            \E w \in Range(split_words(LowerStr(text))) :
                Len(w) > 3 /\ Contains(part_lower, w)
        street_number == components.street_number
        route == components.route
        subpremise == components.subpremise
        locality == components.locality
        postal_code == components.postal_code
        country == components.country
        parts == split_on(original_address, ",")
        original_parts == [i \in DOMAIN parts |-> strip(parts[i])]
        google_street_address ==
            IF route # <<>> /\ street_number # <<>> THEN route \o <<" ">> \o street_number
            ELSE IF route # <<>> THEN route
            ELSE <<>>
        recognised(part) ==
            LET part_lower == LowerStr(part)
            IN \/ /\ google_street_address # <<>>
                  /\ \/ Contains(part_lower, LowerStr(google_street_address))
                     \/ Contains(LowerStr(google_street_address), part_lower)
                     \/ any_long_word_in(google_street_address, part_lower)
               \/ /\ route # <<>>
                  /\ \/ Contains(part_lower, LowerStr(route))
                     \/ Contains(LowerStr(route), part_lower)
                     \/ any_long_word_in(route, part_lower)
               \/ locality # <<>> /\ Contains(part_lower, LowerStr(locality))
               \/ country # <<>> /\ Contains(part_lower, LowerStr(country))
               \/ postal_code # <<>> /\ Contains(part, postal_code)
        preserved_parts ==
            SelectSeq(original_parts, LAMBDA part : ~recognised(part) /\ strip(part) # <<>>)
        address_parts ==
            preserved_parts
            \o (IF google_street_address # <<>> THEN <<google_street_address>> ELSE <<>>)
            \o (IF subpremise # <<>> THEN <<<<"R", "o", "o", "m", " ">> \o subpremise>> ELSE <<>>)
            \o (IF postal_code # <<>> /\ locality # <<>>
                THEN <<postal_code \o <<" ">> \o locality>>
                ELSE IF locality # <<>> THEN <<locality>> ELSE <<>>)
            \o (IF country # <<>> THEN <<UpperStr(country)>> ELSE <<>>)
    IN IF address_parts = <<>> THEN original_address
       ELSE join(address_parts, <<",", " ">>)

\* a wrapper that gives no address back when the geocoder found nothing
normalize_address_or_nothing(address, api_key, response) ==
    IF response.http = "200" /\ response.status = "OK" /\ response.results
    THEN [address |-> address, country_code |-> response.country_code]
    ELSE [address |-> <<>>, country_code |-> None]

\* response: what requests.get did (http = "exception", "500" or "200") and
\* the decoded body (status, country short_name or None, components)
normalize_address_with_google_maps(address, api_key, response) ==
    LET cleaned_address == join(split_words(address), <<" ">>)
    IN IF ~api_key \/ address = <<>>
       THEN [address |-> address, country_code |-> None]
       ELSE IF response.http = "exception"
       THEN [address |-> cleaned_address, country_code |-> None]
       ELSE IF response.http # "200"
       THEN [address |-> cleaned_address, country_code |-> None]
       ELSE IF response.status = "OK" /\ response.results
       THEN IF response.country_code = KR
            THEN [address |-> cleaned_address, country_code |-> response.country_code]
            ELSE [address |-> reconstruct_address_from_components(
                                  response.components, cleaned_address),
                  country_code |-> response.country_code]
       ELSE [address |-> cleaned_address, country_code |-> None]

(***************************************************************************)
(* DataFrame rows                                                          *)
(***************************************************************************)
MINI == "mini"      \* the storefront main.py calls "미니학습지"
DOK == "dok"        \* the storefront main.py calls "독독독"
Sites == {MINI, DOK}

\* the rows convert_orders_to_dataframe makes of one order
order_rows(order) ==
    [i \in DOMAIN order.line_items |->
        [order |-> str(order.id),
         status |-> IF order.status = "completed" THEN "done" ELSE order.status,
         SKU |-> sku_for_status(order.line_items[i]),
         code |-> clean_sku(order.line_items[i]),
         raw |-> order.line_items[i],
         name |-> strip(order.shipping.first_name \o <<" ">> \o order.shipping.last_name),
         addr |-> build_clean_address(order.shipping),
         cc |-> <<>>]]

RECURSIVE convert_orders_to_dataframe(_)
convert_orders_to_dataframe(orders) ==
    IF orders = <<>> THEN <<>>
    ELSE order_rows(Head(orders)) \o convert_orders_to_dataframe(Tail(orders))

\* the keywords of filter_po_box_orders, matched with case=False
po_box_mask(r) ==
    LET po_box_keywords ==
        {<<"<sa>", "<seo>", "<ham>">>,
         <<"P", ".", "O", ".", "B", "O", "X">>,
         <<"P", ".", "O", ".", " ", "B", "O", "X">>,
         <<"P", "O", " ", "B", "O", "X">>,
         <<"P", "O", "B", "O", "X">>}
    IN \E kw \in po_box_keywords : Contains(UpperStr(r.addr), kw)

\* character order of str comparison (digits < upper case < lower case)
OrdOf ==
    LET Alphabet == Digits \o UpperCase \o LowerCase
    IN [c \in Range(Alphabet) |-> CHOOSE i \in DOMAIN Alphabet : Alphabet[i] = c]

RECURSIVE StrLess(_, _)
StrLess(a, b) ==
    IF b = <<>> THEN FALSE
    ELSE IF a = <<>> THEN TRUE
    ELSE IF Head(a) = Head(b) THEN StrLess(Tail(a), Tail(b))
    ELSE LET Ord(c) == IF c \in DOMAIN OrdOf THEN OrdOf[c] ELSE 0
         IN Ord(Head(a)) < Ord(Head(b))

\* insert row r after the rows that are not greater
RECURSIVE insert_sorted(_, _)
insert_sorted(rows, r) ==
    IF rows = <<>> THEN <<r>>
    ELSE IF StrLess(r.order, Head(rows).order) THEN <<r>> \o rows
    ELSE <<Head(rows)>> \o insert_sorted(Tail(rows), r)

\* DataFrame.sort_values(by="order")
RECURSIVE sort_values(_)
sort_values(rows) ==
    IF rows = <<>> THEN <<>>
    ELSE insert_sorted(sort_values(SubSeq(rows, 1, Len(rows) - 1)), rows[Len(rows)])

\* the order-number column with the storefront's letter in front
add_prefix(rows, prefix) ==
    [i \in DOMAIN rows |-> [rows[i] EXCEPT !.order = <<prefix>> \o rows[i].order]]

\* an empty cell of a sheet is read back as NaN, NaN is written as empty
NaN == <<"<NaN>">>
read_excel(file) ==
    [i \in DOMAIN file |-> [f \in DOMAIN file[i] |->
        IF file[i][f] = <<>> THEN NaN ELSE file[i][f]]]
to_excel(rows) ==
    [i \in DOMAIN rows |-> [f \in DOMAIN rows[i] |->
        IF rows[i][f] = NaN THEN <<>> ELSE rows[i][f]]]

(***************************************************************************)
(* ProcessingResults                                                       *)
(***************************************************************************)
reset ==
    [domestic_orders |-> 0, international_orders |-> 0,
     digital_status_changes |-> 0, reservation_status_changes |-> 0,
     b2b_status_changes |-> 0, happy_together_processed |-> 0,
     errors |-> <<>>, warnings |-> <<>>]

add_domestic_orders(res, count) ==
    [res EXCEPT !.domestic_orders = @ + count]
add_international_orders(res, count) ==
    [res EXCEPT !.international_orders = @ + count]
add_digital_status_changes(res, count) ==
    [res EXCEPT !.digital_status_changes = @ + count]
add_reservation_status_changes(res, count) ==
    [res EXCEPT !.reservation_status_changes = @ + count]
add_b2b_status_changes(res, count) ==
    [res EXCEPT !.b2b_status_changes = @ + count]
add_warning(res, warning_msg) ==
    [res EXCEPT !.warnings = Append(@, warning_msg)]

\* the warning text: its headline, the storefront, the listed order numbers
add_korean_recipient_issue(res, korean_orders_df, site_name) ==
    IF korean_orders_df = <<>> THEN res
    ELSE add_warning(res, [issue |-> "korean_recipient", site |-> site_name,
             orders |-> [i \in DOMAIN korean_orders_df |-> korean_orders_df[i].order]])

add_non_english_address_issue(res, non_english_orders_df, site_name) ==
    IF non_english_orders_df = <<>> THEN res
    ELSE add_warning(res, [issue |-> "non_english_address", site |-> site_name,
             orders |-> [i \in DOMAIN non_english_orders_df |->
                            non_english_orders_df[i].order]])

(***************************************************************************)
(* update_orders_batch                                                     *)
(***************************************************************************)
batch_size == 20

Min(a, b) == IF a < b THEN a ELSE b

\* a loop that ends after its first chunk
chunks_first_only(order_ids) ==
    IF order_ids = <<>> THEN <<>>
    ELSE <<SubSeq(order_ids, 1, Min(batch_size, Len(order_ids)))>>

\* the chunks order_ids[i:i+batch_size]
RECURSIVE chunks(_)
chunks(order_ids) ==
    IF order_ids = <<>> THEN <<>>
    ELSE <<SubSeq(order_ids, 1, Min(batch_size, Len(order_ids)))>>
         \o chunks(SubSeq(order_ids, Min(batch_size, Len(order_ids)) + 1, Len(order_ids)))

\* what the storefront can answer to a chunk: an exception, a status other
\* than 200, or 200 with one entry per update whose id is set (TRUE) or not
BatchResponses(batch) ==
    {[http |-> "exception", update |-> <<>>], [http |-> "500", update |-> <<>>]}
    \cup {[http |-> "200", update |-> u] : u \in
            {[i \in DOMAIN batch |-> TRUE],
             [i \in DOMAIN batch |-> i # 1]}}

\* total_updated: the sum of the success_count of the chunks
RECURSIVE sum_success(_)
sum_success(responses) ==
    LET success_count(response) ==
            IF response.http = "200"
            THEN Cardinality({i \in DOMAIN response.update : response.update[i]})
            ELSE 0
    IN IF responses = <<>> THEN 0
       ELSE success_count(Head(responses)) + sum_success(Tail(responses))

\* responses[k] answers the k-th chunk; the result is total_updated
update_orders_batch(order_ids, responses) ==
    IF order_ids = <<>> THEN 0 ELSE sum_success(responses)

\* the possible answers to all chunks of order_ids
AllResponses(order_ids) ==
    LET cs == chunks(order_ids)
    IN {r \in [DOMAIN cs -> UNION {BatchResponses(cs[k]) : k \in DOMAIN cs}] :
            \A k \in DOMAIN cs : r[k] \in BatchResponses(cs[k])}

(***************************************************************************)
(* Inputs: SKUs, shipping records, orders, geocoder answers                *)
(***************************************************************************)
SkuPlain == <<"PROD">>
SkuDigital == <<"ABC", TagDigital, "-", "2024">>
SkuB2BAfterHyphen == <<"PROD", "-", "A", TagB2B>>

NoShipping ==
    [first_name |-> <<"J", "o">>, last_name |-> <<>>, address_1 |-> <<>>,
     address_2 |-> <<>>, city |-> <<>>, state |-> <<>>, country |-> <<>>]
ShipKorean ==
    [NoShipping EXCEPT !.first_name = <<"<kim>">>,
                       !.address_1 = <<"<gil>", " ", "1", ",", " ", "K", "R">>,
                       !.state = <<"<seo>", "<ul>", "<si>">>,
                       !.city = <<"<seo>", "<ul>", "<si>">>,
                       !.country = <<"K", "R">>]
ShipOverseas ==
    [NoShipping EXCEPT !.address_1 = <<"1", " ", "M", "a", "i", "n">>,
                       !.city = <<"N", "Y">>, !.state = <<"N", "Y">>,
                       !.country = <<"U", "S">>]
\* also: an overseas address with a Hangul recipient name, an address in
\* kanji, a PO box, and a Korean address written in Latin script
Shippings ==
    {NoShipping, ShipKorean, ShipOverseas,
     [ShipOverseas EXCEPT !.first_name = <<"<kim>">>],
     [NoShipping EXCEPT !.address_1 = <<"<kanji>", " ", "1">>,
                        !.country = <<"J", "P">>],
     [NoShipping EXCEPT !.address_1 = <<"P", "O", " ", "B", "o", "x", " ", "1">>,
                        !.country = <<"U", "S">>],
     [NoShipping EXCEPT !.address_1 = <<"1", " ", "G", "i", "l">>,
                        !.state = <<"S", "e", "o", "u", "l">>,
                        !.country = <<"K", "R">>]}

Order(id, items, shipping) ==
    [id |-> id, status |-> "completed", line_items |-> items, shipping |-> shipping]

\* what one storefront can return for today's window: nothing, or one order
OrderIds == {1234}
OrderPool ==
    LET SKUs == {SkuPlain, SkuDigital, <<"PROD", TagReservation>>, <<"PROD", TagB2B>>,
             SkuB2BAfterHyphen, <<"PROD", "-", "A", TagReservation>>}
    IN {<<>>} \cup {<<Order(id, items, sh)>> :
                       id \in OrderIds,
                       items \in UNION {[1..n -> SKUs] : n \in 1..MaxItems},
                       sh \in Shippings}

\* a small choice of orders for whole-day runs
DayPool ==
    {<<>>} \cup {<<Order(id, <<sku>>, sh)>> :
                    id \in OrderIds, sku \in {SkuPlain, SkuDigital},
                    sh \in {ShipKorean, ShipOverseas}}

NoComponents ==
    [street_number |-> <<>>, route |-> <<>>, subpremise |-> <<>>,
     locality |-> <<>>, postal_code |-> <<>>, country |-> <<>>]
GeoKR == [http |-> "200", status |-> "OK", results |-> TRUE,
          country_code |-> KR,
          components |-> [NoComponents EXCEPT !.locality = <<"S", "e", "o", "u", "l">>,
                                              !.country = <<"S", "o", "u", "t", "h", " ",
                                                            "K", "o", "r", "e", "a">>]]
\* the answers of the geocoder: an exception, a status other than 200, no
\* result, a Korean and a United States address
GeoResponses ==
    LET GeoFailed == [http |-> "exception", status |-> "", results |-> FALSE,
                      country_code |-> None, components |-> NoComponents]
    IN {GeoFailed,
        [GeoFailed EXCEPT !.http = "500"],
        [GeoFailed EXCEPT !.http = "200", !.status = "ZERO_RESULTS"],
        GeoKR,
        [http |-> "200", status |-> "OK", results |-> TRUE,
         country_code |-> <<"U", "S">>,
         components |-> [NoComponents EXCEPT !.street_number = <<"1">>,
                                             !.route = <<"M", "a", "i", "n">>,
                                             !.locality = <<"N", "Y">>,
                                             !.country = <<"U", "S", "A">>]]}

(***************************************************************************)
(* Working days and the order-query window (common_utils.py)               *)
(* A date is a day number, day 0 is a Monday; a time is counted in hours.  *)
(***************************************************************************)
\* holidays: the table the holiday API returns; fallback_holidays: the table
\* in the code, used when the API fails
NoCalendar ==
    [today_kst |-> 0, holidays |-> {}, fallback_holidays |-> {}, CUSTOM_HOLIDAYS |-> {}]

\* the answers a lookup can give: each call asks the API again
is_holiday(date) ==
    LET get_korean_holidays == {calendar.holidays, calendar.fallback_holidays}
    IN {(date \in holidays) : holidays \in get_korean_holidays}

is_custom_holiday(date_obj) == date_obj \in calendar.CUSTOM_HOLIDAYS

\* the answers should_skip_today can give on today_kst
should_skip_today(today_kst) ==
    {is_holiday_today \/ today_kst % 7 >= 5 \/ is_custom_holiday(today_kst) :
        is_holiday_today \in is_holiday(today_kst)}

\* the loop of find_last_work_day at check_date: the dates it can return
RECURSIVE find_last_work_day_from(_, _, _)
find_last_work_day_from(current_date, check_date, days_checked) ==
    IF ~(days_checked < 14) THEN {current_date - 1}
    ELSE IF check_date % 7 >= 5
    THEN find_last_work_day_from(current_date, check_date - 1, days_checked + 1)
    ELSE UNION {IF holiday \/ is_custom_holiday(check_date)
                THEN find_last_work_day_from(current_date, check_date - 1, days_checked + 1)
                ELSE {check_date} :
                   holiday \in is_holiday(check_date)}

find_last_work_day(current_date) ==
    find_last_work_day_from(current_date, current_date - 1, 0)

\* the window of the last 24 hours, whatever the last work day
get_date_range_last_24_hours(today_kst, last_work_day) ==
    [start_date |-> (today_kst - 1) * 24 + 12, end_date |-> today_kst * 24 + 12]

\* start_date and end_date, both at 12:00 KST
get_date_range(today_kst, last_work_day) ==
    LET days_gap == today_kst - last_work_day
        yesterday == today_kst - 1
    IN IF days_gap > 1
       THEN [start_date |-> last_work_day * 24 + 12, end_date |-> today_kst * 24 + 12]
       ELSE [start_date |-> yesterday * 24 + 12, end_date |-> today_kst * 24 + 12]

\* the scheduled run of one day: main() returns when the day is skipped, else
\* it computes the window of its order query; the next run is a day later
main_scheduled ==
    /\ pc = "scheduled"
    /\ runs < MaxDays
    /\ runs' = runs + 1
    /\ \E should_skip \in should_skip_today(calendar.today_kst) :
          IF should_skip
          THEN UNCHANGED windows
          ELSE \E last_work_day \in find_last_work_day(calendar.today_kst) :
                 LET window == get_date_range(calendar.today_kst, last_work_day)
                 IN windows' = (IF windows = <<>> THEN <<>> ELSE <<windows[Len(windows)]>>)
                               \o <<window>>
    /\ calendar' = [calendar EXCEPT !.today_kst = @ + 1]
    /\ UNCHANGED <<pc, site, env, df, shipping_df, ems, dom, results, sent, sheet,
                   order_tracking_map, friend, main_calls>>

(***************************************************************************)
(* process_site_orders: fetch, convert, filter                             *)
(***************************************************************************)
\* the storefront's credentials are set (get_woocommerce_auth is not None)
get_woocommerce_auth(site_name) == IF site_name = MINI THEN env.WP ELSE env.DOK_WP

order_column(rows) == [i \in DOMAIN rows |-> rows[i].order]

\* pool: the order lists fetch_orders_from_wp can return
process_site_orders_begin(pool) ==
    /\ pc = "site_begin"
    /\ \E orders \in pool, saved \in BOOLEAN :
        LET converted == convert_orders_to_dataframe(orders)
            completed == SelectSeq(converted, LAMBDA r : r.status = "done")
            po_box_orders == SelectSeq(completed, po_box_mask)
            regular_orders == SelectSeq(completed, LAMBDA r : ~po_box_mask(r))
        IN IF ~get_woocommerce_auth(site) \/ orders = <<>> \/ completed = <<>>
           THEN /\ pc' = "site_end"
                /\ UNCHANGED <<df, results>>
           ELSE /\ pc' = "reservation"
                /\ df' = regular_orders
                /\ results' = IF po_box_orders # <<>> /\ saved
                              THEN add_warning(results,
                                       [issue |-> "po_box", site |-> site,
                                        orders |-> order_column(po_box_orders)])
                              ELSE results
    /\ shipping_df' = <<>>
    /\ UNCHANGED <<site, env, ems, dom, sent, runs, sheet, order_tracking_map, friend, main_calls,
                   calendar, windows>>

(***************************************************************************)
(* dok_status.py                                                           *)
(***************************************************************************)
Batch(site_name, bucket, status, order_ids) ==
    [site |-> site_name, bucket |-> bucket, status |-> status, order_ids |-> order_ids]

process_dok_reservation_status_change ==
    /\ pc = "reservation" /\ site = DOK
    /\ LET reservation_df == SelectSeq(df, LAMBDA r : str_contains(r.SKU, TagReservation))
           order_ids == order_column(reservation_df)
       IN IF df = <<>> \/ reservation_df = <<>> \/ ~env.DOK_WP
          THEN UNCHANGED <<sent, results>>
          ELSE \E responses \in AllResponses(order_ids) :
                /\ sent' = Append(sent, Batch(DOK, "reservation", "processing", order_ids))
                /\ results' = add_reservation_status_changes(results,
                                  update_orders_batch(order_ids, responses))
    /\ shipping_df' = SelectSeq(df, LAMBDA r : ~str_contains(r.SKU, TagReservation))
    /\ pc' = "domestic"
    /\ UNCHANGED <<site, env, df, ems, dom, runs, sheet, order_tracking_map, friend, main_calls,
                   calendar, windows>>

process_dok_digital_status_change ==
    /\ pc = "digital" /\ site = DOK
    /\ LET digital_df == SelectSeq(df, LAMBDA r : str_contains(r.SKU, TagDigital))
           order_ids == order_column(digital_df)
       IN IF df = <<>> \/ digital_df = <<>> \/ ~env.DOK_WP
          THEN UNCHANGED <<sent, results>>
          ELSE \E responses \in AllResponses(order_ids) :
                /\ sent' = Append(sent, Batch(DOK, "digital", "shipped", order_ids))
                /\ results' = add_digital_status_changes(results,
                                  update_orders_batch(order_ids, responses))
    /\ pc' = "b2b"
    /\ UNCHANGED <<site, env, df, shipping_df, ems, dom, runs, sheet,
                   order_tracking_map, friend, main_calls, calendar, windows>>

process_dok_b2b_status_change ==
    /\ pc = "b2b" /\ site = DOK
    /\ LET b2b_df == SelectSeq(df, LAMBDA r : str_contains(r.SKU, TagB2B))
           order_ids == order_column(b2b_df)
       IN IF df = <<>> \/ b2b_df = <<>> \/ ~env.DOK_WP
          THEN UNCHANGED <<sent, results>>
          ELSE \E responses \in AllResponses(order_ids) :
                /\ sent' = Append(sent, Batch(DOK, "b2b", "shipped", order_ids))
                /\ results' = add_b2b_status_changes(results,
                                  update_orders_batch(order_ids, responses))
    /\ pc' = "site_end"
    /\ UNCHANGED <<site, env, df, shipping_df, ems, dom, runs, sheet,
                   order_tracking_map, friend, main_calls, calendar, windows>>

(***************************************************************************)
(* mini_status.py (not in the sources: modelled from the specification,    *)
(* sections 4.1 and 4.4: tags are read from the full raw SKU, the digital  *)
(* and reservation transitions take pure orders only, B2B is a tag match)  *)
(***************************************************************************)
RECURSIVE unique(_)
unique(ids) ==
    IF ids = <<>> THEN <<>>
    ELSE LET rest == unique(SubSeq(ids, 1, Len(ids) - 1))
         IN IF ids[Len(ids)] \in Range(rest) THEN rest ELSE Append(rest, ids[Len(ids)])

has_tag(r, tag) == str_contains(r.raw, tag)
is_physical(r) == \A tag \in Tags : ~has_tag(r, tag)
order_items(rows, order_num) == SelectSeq(rows, LAMBDA r : r.order = order_num)
\* the orders of a bucket: reservation and digital orders are pure (no
\* physical item, a reservation order no digital item), B2B is a tag match
bucket_orders(rows, bucket) ==
    SelectSeq(unique(order_column(rows)), LAMBDA o :
        LET items == Range(order_items(rows, o))
        IN IF bucket = "reservation"
           THEN /\ \E r \in items : has_tag(r, TagReservation)
                /\ ~\E r \in items : has_tag(r, TagDigital)
                /\ ~\E r \in items : is_physical(r)
           ELSE IF bucket = "digital"
           THEN /\ \E r \in items : has_tag(r, TagDigital)
                /\ ~\E r \in items : is_physical(r)
           ELSE \E r \in items : has_tag(r, TagB2B))

process_mini_reservation_status_change ==
    /\ pc = "reservation" /\ site = MINI
    /\ LET order_ids == bucket_orders(df, "reservation")
       IN IF order_ids = <<>> \/ ~env.WP
          THEN UNCHANGED <<sent, results>>
          ELSE \E responses \in AllResponses(order_ids) :
                /\ sent' = Append(sent, Batch(MINI, "reservation", "processing", order_ids))
                /\ results' = add_reservation_status_changes(results,
                                  update_orders_batch(order_ids, responses))
    /\ shipping_df' = SelectSeq(df, LAMBDA r : ~str_contains(r.SKU, TagReservation))
    /\ pc' = "domestic"
    /\ UNCHANGED <<site, env, df, ems, dom, runs, sheet, order_tracking_map, friend, main_calls,
                   calendar, windows>>

process_mini_digital_status_change ==
    /\ pc = "digital" /\ site = MINI
    /\ LET order_ids == bucket_orders(df, "digital")
       IN IF order_ids = <<>> \/ ~env.WP
          THEN UNCHANGED <<sent, results>>
          ELSE \E responses \in AllResponses(order_ids) :
                /\ sent' = Append(sent, Batch(MINI, "digital", "shipped", order_ids))
                /\ results' = add_digital_status_changes(results,
                                  update_orders_batch(order_ids, responses))
    /\ pc' = "b2b"
    /\ UNCHANGED <<site, env, df, shipping_df, ems, dom, runs, sheet,
                   order_tracking_map, friend, main_calls, calendar, windows>>

process_mini_b2b_status_change ==
    /\ pc = "b2b" /\ site = MINI
    /\ LET order_ids == bucket_orders(df, "b2b")
       IN IF order_ids = <<>> \/ ~env.WP
          THEN UNCHANGED <<sent, results>>
          ELSE \E responses \in AllResponses(order_ids) :
                /\ sent' = Append(sent, Batch(MINI, "b2b", "shipped", order_ids))
                /\ results' = add_b2b_status_changes(results,
                                  update_orders_batch(order_ids, responses))
    /\ pc' = "site_end"
    /\ UNCHANGED <<site, env, df, shipping_df, ems, dom, runs, sheet,
                   order_tracking_map, friend, main_calls, calendar, windows>>

(***************************************************************************)
(* Domestic manifests                                                      *)
(***************************************************************************)
\* the columns of a manifest
manifest_columns(rows) ==
    [i \in DOMAIN rows |->
        [order |-> rows[i].order, code |-> rows[i].code, raw |-> rows[i].raw,
         name |-> rows[i].name, addr |-> rows[i].addr, cc |-> rows[i].cc]]

clean_addresses(rows) ==
    [i \in DOMAIN rows |-> [rows[i] EXCEPT !.addr = clean_korean_address(@)]]

process_mini_domestic_orders ==
    /\ pc = "domestic" /\ site = MINI
    /\ LET korean == SelectSeq(shipping_df, LAMBDA r : is_korean_address(r.addr))
           domestic == SelectSeq(korean, LAMBDA r :
                           /\ ~str_contains(r.SKU, TagB2B)
                           /\ ~str_contains(r.SKU, TagDigital))
           rows == sort_values(manifest_columns(clean_addresses(
                       add_prefix(domestic, "S"))))
       IN IF shipping_df = <<>>
          THEN UNCHANGED <<dom, results>>
          ELSE IF korean = <<>> \/ domestic = <<>>
          THEN /\ results' = add_domestic_orders(results, 0)
               /\ UNCHANGED dom
          ELSE /\ dom' = [dom EXCEPT ![MINI] = to_excel(rows)]
               /\ results' = add_domestic_orders(results, Len(rows))
    /\ pc' = "international"
    /\ UNCHANGED <<site, env, df, shipping_df, ems, sent, runs, sheet,
                   order_tracking_map, friend, main_calls, calendar, windows>>

\* dok_domestic.py is not in the sources: modelled from the specification,
\* sections 4.1 and 4.4 (2, 6): domestic address, no B2B or digital tag in the
\* full raw SKU, order number with the letter D
process_dok_domestic_orders ==
    /\ pc = "domestic" /\ site = DOK
    /\ LET domestic == SelectSeq(shipping_df, LAMBDA r :
                           /\ is_korean_address(r.addr)
                           /\ ~has_tag(r, TagB2B)
                           /\ ~has_tag(r, TagDigital))
           rows == sort_values(manifest_columns(clean_addresses(
                       add_prefix(domestic, "D"))))
       IN IF domestic = <<>>
          THEN UNCHANGED <<dom, results>>
          ELSE /\ dom' = [dom EXCEPT ![DOK] = to_excel(rows)]
               /\ results' = add_domestic_orders(results, Len(rows))
    /\ pc' = "international"
    /\ UNCHANGED <<site, env, df, shipping_df, ems, sent, runs, sheet,
                   order_tracking_map, friend, main_calls, calendar, windows>>

(***************************************************************************)
(* International (EMS) manifest                                            *)
(***************************************************************************)
\* responses[i]: what the geocoder answers for row i
process_overseas_addresses(rows, api_key, responses) ==
    IF ~api_key THEN rows
    ELSE [i \in DOMAIN rows |->
            IF ~is_korean_address(rows[i].addr)
            THEN LET n == normalize_address_with_google_maps(
                              rows[i].addr, api_key, responses[i])
                 IN [rows[i] EXCEPT !.addr = n.address,
                                    !.cc = IF Truthy(n.country_code)
                                           THEN n.country_code ELSE @]
            ELSE rows[i]]

\* the address filter and its second pass
overseas_addresses(rows) ==
    LET overseas == SelectSeq(rows, LAMBDA r :
                        /\ r.addr # NaN
                        /\ strip(r.addr) # <<>>
                        /\ ~is_korean_address(r.addr))
    IN SelectSeq(overseas, LAMBDA r : ~is_korean_address(r.addr))

\* the tag filter
overseas_physical(rows) ==
    SelectSeq(rows, LAMBDA r : ~str_contains(r.SKU, TagB2B) /\ ~str_contains(r.SKU, TagDigital))

\* filter_korean_recipients: <<valid_orders, korean_orders>>
filter_korean_recipients(rows) ==
    <<SelectSeq(rows, LAMBDA r : ~has_korean_characters(r.name)),
      SelectSeq(rows, LAMBDA r : has_korean_characters(r.name))>>

\* a filter that keeps the eligible rows and forgets the others
filter_non_english_addresses_drop(rows) ==
    <<SelectSeq(rows, LAMBDA r : ~has_non_english_characters(r.addr)), <<>>>>

\* filter_non_english_addresses: <<valid_orders, non_english_orders>>
filter_non_english_addresses(rows) ==
    <<SelectSeq(rows, LAMBDA r : ~has_non_english_characters(r.addr)),
      SelectSeq(rows, LAMBDA r : has_non_english_characters(r.addr))>>

\* a write that replaces the day's file
merge_ems_overwrite(file, overseas) ==
    to_excel(sort_values(manifest_columns(overseas)))

\* pick the columns, sort, merge with the day's file if there is one, write
merge_ems(file, overseas) ==
    LET overseas_ems == sort_values(manifest_columns(overseas))
    IN to_excel(IF file # <<>> THEN read_excel(file) \o overseas_ems ELSE overseas_ems)

\* from the prefix on: geocode, then write the file
write_ems(overseas, prefix, res, responses) ==
    LET located == process_overseas_addresses(
                       add_prefix([i \in DOMAIN overseas |->
                                      [overseas[i] EXCEPT !.cc = <<>>]], prefix),
                       env.GOOGLE_MAPS_API_KEY, responses)
    IN /\ ems' = merge_ems(ems, located)
       /\ results' = add_international_orders(res, Len(merge_ems(ems, located)))

international_orders(prefix) ==
    LET overseas == overseas_addresses(shipping_df)
        physical == overseas_physical(overseas)
        by_name == filter_korean_recipients(physical)
        res1 == add_korean_recipient_issue(results, by_name[2], site)
        by_addr == filter_non_english_addresses(by_name[1])
        res2 == add_non_english_address_issue(res1, by_addr[2], site)
    IN IF shipping_df = <<>> \/ overseas = <<>> \/ physical = <<>>
       THEN UNCHANGED <<ems, results>>
       ELSE IF by_name[1] = <<>>
       THEN results' = res1 /\ UNCHANGED ems
       ELSE IF by_addr[1] = <<>>
       THEN results' = res2 /\ UNCHANGED ems
       ELSE \E responses \in [DOMAIN by_addr[1] -> GeoResponses] :
                write_ems(by_addr[1], prefix, res2, responses)

process_mini_international_orders ==
    /\ pc = "international" /\ site = MINI
    /\ international_orders("S")
    /\ pc' = "digital"
    /\ UNCHANGED <<site, env, df, shipping_df, dom, sent, runs, sheet,
                   order_tracking_map, friend, main_calls, calendar, windows>>

process_dok_international_orders ==
    /\ pc = "international" /\ site = DOK
    /\ international_orders("D")
    /\ pc' = "digital"
    /\ UNCHANGED <<site, env, df, shipping_df, dom, sent, runs, sheet,
                   order_tracking_map, friend, main_calls, calendar, windows>>

(***************************************************************************)
(* One call of process_site_orders                                         *)
(***************************************************************************)
NoTracking == [keys |-> <<>>, records |-> <<>>]
NoFriend == [origin |-> None, remote |-> <<>>, calls |-> 0, existing |-> <<>>,
             returned |-> FALSE, lookup |-> "not made"]

EnvSet == [WP : BOOLEAN, DOK_WP : BOOLEAN, GOOGLE_MAPS_API_KEY : BOOLEAN]

InitSite ==
    /\ pc = "site_begin"
    /\ site \in Sites
    /\ env \in EnvSet
    /\ df = <<>> /\ shipping_df = <<>>
    /\ ems = <<>>
    /\ dom = [s \in Sites |-> <<>>]
    /\ results = reset
    /\ sent = <<>>
    /\ runs = 1
    /\ sheet = <<>>
    /\ order_tracking_map = NoTracking
    /\ main_calls = <<>>
    /\ calendar = NoCalendar
    /\ windows = <<>>
    /\ friend = NoFriend

SiteSteps ==
    \/ process_dok_reservation_status_change
    \/ process_dok_domestic_orders
    \/ process_dok_international_orders
    \/ process_dok_digital_status_change
    \/ process_dok_b2b_status_change
    \/ process_mini_reservation_status_change
    \/ process_mini_domestic_orders
    \/ process_mini_international_orders
    \/ process_mini_digital_status_change
    \/ process_mini_b2b_status_change

NextSite == process_site_orders_begin(OrderPool) \/ SiteSteps

SpecSite == InitSite /\ [][NextSite]_vars

(***************************************************************************)
(* main(): the runs of one calendar day                                    *)
(***************************************************************************)
\* a new process: processing_results is created, the day's files stay
main_begin ==
    /\ pc = "idle"
    /\ runs < MaxRuns
    /\ runs' = runs + 1
    /\ results' = reset
    /\ sent' = <<>>
    /\ df' = <<>> /\ shipping_df' = <<>>
    /\ \E should_skip \in BOOLEAN :
          IF should_skip
          THEN pc' = "idle" /\ main_calls' = <<>>
          ELSE pc' = "main_dok" /\ main_calls' = << <<"get_date_range", "called">> >>
    /\ UNCHANGED <<site, env, ems, dom, sheet, order_tracking_map, friend, calendar, windows>>

\* main() returns when the credentials of the first storefront are missing
main_dok_return ==
    /\ pc = "main_dok"
    /\ IF env.DOK_WP
       THEN /\ site' = DOK /\ pc' = "site_begin"
            /\ main_calls' = Append(main_calls, <<"process_site_orders", DOK>>)
       ELSE pc' = "idle" /\ UNCHANGED <<site, main_calls>>
    /\ UNCHANGED <<env, df, shipping_df, ems, dom, results, sent, runs, sheet,
                   order_tracking_map, friend, calendar, windows>>

main_dok ==
    /\ pc = "main_dok"
    /\ IF env.DOK_WP
       THEN /\ site' = DOK /\ pc' = "site_begin"
            /\ main_calls' = Append(main_calls, <<"process_site_orders", DOK>>)
       ELSE pc' = "main_mini" /\ UNCHANGED <<site, main_calls>>
    /\ UNCHANGED <<env, df, shipping_df, ems, dom, results, sent, runs, sheet,
                   order_tracking_map, friend, calendar, windows>>

main_mini ==
    /\ pc = "main_mini"
    /\ IF env.WP
       THEN /\ site' = MINI /\ pc' = "site_begin"
            /\ main_calls' = Append(main_calls, <<"process_site_orders", MINI>>)
       ELSE pc' = "main_email" /\ UNCHANGED <<site, main_calls>>
    /\ UNCHANGED <<env, df, shipping_df, ems, dom, results, sent, runs, sheet,
                   order_tracking_map, friend, calendar, windows>>

\* process_site_orders returns to main
main_site_done ==
    /\ pc = "site_end"
    /\ pc' = IF site = DOK THEN "main_mini" ELSE "main_email"
    /\ UNCHANGED <<site, env, df, shipping_df, ems, dom, results, sent, runs, sheet,
                   order_tracking_map, friend, main_calls, calendar, windows>>

\* the manifests are backed up whether or not they were sent by email
main_end_backup_first ==
    /\ pc = "main_email"
    /\ main_calls' = main_calls \o << <<"backup_files_to_drive(shipping_files)", "True">>,
                                      <<"send_processing_result_email", "True">> >>
    /\ pc' = "idle"
    /\ UNCHANGED <<site, env, df, shipping_df, ems, dom, results, sent, runs, sheet,
                   order_tracking_map, friend, calendar, windows>>

\* the last part of main(): the manifests by email, their backup, the
\* result summary by email, the backup of the PO box files.
\* recipient_email: EMAIL_RECIPIENT is set; success, backup_success,
\* result_email_success, po_box_backup_success: what the four calls return
main_end ==
    /\ pc = "main_email"
    /\ \E recipient_email, success, backup_success, result_email_success,
          po_box_backup_success \in BOOLEAN :
         LET shipping_files == dom[DOK] # <<>> \/ dom[MINI] # <<>> \/ ems # <<>>
             po_box_file_paths ==
                 \E i \in DOMAIN results.warnings : results.warnings[i].issue = "po_box"
             call(fn, ok) == <<fn, IF ok THEN "True" ELSE "False">>
             warning(text) == [issue |-> text, site |-> "all", orders |-> <<>>]
             shipping_calls ==
                 IF ~shipping_files \/ ~recipient_email THEN <<>>
                 ELSE IF ~success THEN <<call("send_shipping_files_email", FALSE)>>
                 ELSE <<call("send_shipping_files_email", TRUE),
                        call("backup_files_to_drive(shipping_files)", backup_success)>>
             res1 == IF ~shipping_files
                     THEN add_warning(results, warning("no shipping files"))
                     ELSE IF recipient_email /\ success /\ ~backup_success
                     THEN add_warning(results, warning("drive backup failed"))
                     ELSE results
             result_calls ==
                 <<call("send_processing_result_email", result_email_success)>>
             po_box_calls ==
                 IF po_box_file_paths
                 THEN <<call("backup_files_to_drive(po_box_file_paths)",
                             po_box_backup_success)>>
                 ELSE <<>>
             res2 == IF po_box_file_paths /\ ~po_box_backup_success
                     THEN add_warning(res1, warning("po box drive backup failed"))
                     ELSE res1
         IN /\ main_calls' = main_calls \o shipping_calls \o result_calls \o po_box_calls
            /\ results' = res2
    /\ pc' = "idle"
    /\ UNCHANGED <<site, env, df, shipping_df, ems, dom, sent, runs, sheet,
                   order_tracking_map, friend, calendar, windows>>

Init ==
    /\ pc = "idle"
    /\ site = DOK
    /\ env \in EnvSet
    /\ df = <<>> /\ shipping_df = <<>>
    /\ ems = <<>>
    /\ dom = [s \in Sites |-> <<>>]
    /\ results = reset
    /\ sent = <<>>
    /\ runs = 0
    /\ sheet = <<>>
    /\ order_tracking_map = NoTracking
    /\ main_calls = <<>>
    /\ calendar = NoCalendar
    /\ windows = <<>>
    /\ friend = NoFriend

Next ==
    \/ main_begin
    \/ main_dok
    \/ main_mini
    \/ main_site_done
    \/ main_end
    \/ process_site_orders_begin(DayPool)
    \/ SiteSteps

Spec == Init /\ [][Next]_vars

(***************************************************************************)
(* tracking_updater.py                                                     *)
(***************************************************************************)
startswith(s, pat) == MatchAt(s, pat, 1)

\* parse_order_number without the slice order_number[1:]
parse_order_number_keep_prefix(order_number) ==
    IF startswith(order_number, <<"S">>)
    THEN [clean_order_id |-> split_on(order_number, "-")[1], site |-> MINI]
    ELSE IF startswith(order_number, <<"D">>)
    THEN [clean_order_id |-> split_on(order_number, "-")[1], site |-> DOK]
    ELSE [clean_order_id |-> None, site |-> None]

parse_order_number(order_number) ==
    IF startswith(order_number, <<"S">>)
    THEN LET order_without_prefix == Tail(order_number)
         IN [clean_order_id |-> IF Contains(order_without_prefix, <<"-">>)
                                THEN split_on(order_without_prefix, "-")[1]
                                ELSE order_without_prefix,
             site |-> MINI]
    ELSE IF startswith(order_number, <<"D">>)
    THEN LET order_without_prefix == Tail(order_number)
         IN [clean_order_id |-> IF Contains(order_without_prefix, <<"-">>)
                                THEN split_on(order_without_prefix, "-")[1]
                                ELSE order_without_prefix,
             site |-> DOK]
    ELSE [clean_order_id |-> None, site |-> None]

get_carrier_info_from_tracking(tracking_number, is_international) ==
    IF is_international THEN <<"EMS", "EMS">> ELSE <<"CJGLS", "<daehantongun>">>

overseas_keywords ==
    << <<"U", "S", "A">>,
       <<"U", "N", "I", "T", "E", "D", " ", "S", "T", "A", "T", "E", "S">>,
       <<"A", "M", "E", "R", "I", "C", "A">>, <<"U", "S">>,
       <<"J", "A", "P", "A", "N">>, <<"T", "O", "K", "Y", "O">>,
       <<"O", "S", "A", "K", "A">>, <<"J", "P">>,
       <<"C", "H", "I", "N", "A">>, <<"B", "E", "I", "J", "I", "N", "G">>,
       <<"S", "H", "A", "N", "G", "H", "A", "I">>, <<"C", "N">>,
       <<"S", "I", "N", "G", "A", "P", "O", "R", "E">>, <<"S", "G">>,
       <<"T", "A", "I", "W", "A", "N">>, <<"T", "W">>,
       <<"H", "O", "N", "G", " ", "K", "O", "N", "G">>, <<"H", "K">>,
       <<"V", "I", "E", "T", "N", "A", "M">>, <<"V", "N">> >>

determine_shipping_type_keyword_first(row) ==
    LET address == strip(row.addr)
        country_code == strip(row.cc)
    IN IF \E k \in DOMAIN overseas_keywords :
              Contains(UpperStr(address), overseas_keywords[k])
       THEN TRUE
       ELSE IF country_code # <<>> THEN UpperStr(country_code) # KR
       ELSE (\E i \in DOMAIN address : IsLetter(address[i]))
            /\ ~has_korean_characters(address) /\ Len(address) > 10

\* row.get(column, '') of a row of strings
determine_shipping_type(row) ==
    LET address == strip(row.addr)
        country_code == strip(row.cc)
        address_upper == UpperStr(address)
        has_korean == has_korean_characters(address)
        has_english == \E i \in DOMAIN address : IsLetter(address[i])
    IN IF country_code # <<>>
       THEN UpperStr(country_code) # KR
       ELSE IF address # <<>>
       THEN \/ \E k \in DOMAIN overseas_keywords :
                 Contains(address_upper, overseas_keywords[k])
            \/ (has_english /\ ~has_korean /\ Len(address) > 10)
       ELSE FALSE

\* the strings a tracking cell is taken as empty for: ['nan', 'none', '']
nan_strings == {<<"n", "a", "n">>, <<"n", "o", "n", "e">>, <<>>}

\* a dict whose assignment leaves a present key alone (setdefault)
dict_set_keep_first(d, key, value) ==
    IF \E i \in DOMAIN d.keys : d.keys[i] = key
    THEN d
    ELSE [keys |-> Append(d.keys, key), records |-> Append(d.records, value)]

\* a dict: keys in insertion order, an assignment to a present key keeps its place
dict_set(d, key, value) ==
    IF \E i \in DOMAIN d.keys : d.keys[i] = key
    THEN LET i == CHOOSE k \in DOMAIN d.keys : d.keys[k] = key
         IN [d EXCEPT !.records[i] = value]
    ELSE [keys |-> Append(d.keys, key), records |-> Append(d.records, value)]

\* the body of the loop over df.iterrows()
tracking_row(map, row) ==
    LET order_number == strip(row.order)
        tracking_number == strip(row.tracking)
        parsed == parse_order_number(order_number)
        is_international == determine_shipping_type(row)
        carrier == get_carrier_info_from_tracking(tracking_number, is_international)
        order_key == <<parsed.site, "_">> \o parsed.clean_order_id
    IN IF order_number = <<>> \/ tracking_number = <<>>
          \/ LowerStr(tracking_number) \in nan_strings
       THEN map
       ELSE IF ~Truthy(parsed.clean_order_id)
       THEN map
       ELSE dict_set(map, order_key,
                [order_id |-> parsed.clean_order_id,
                 tracking_number |-> tracking_number,
                 carrier_code |-> carrier[1],
                 carrier_name |-> carrier[2],
                 site |-> parsed.site,
                 original_order |-> order_number,
                 shipping_type |-> IF is_international THEN "overseas" ELSE "domestic"])

RECURSIVE build_order_tracking_map(_, _)
build_order_tracking_map(map, rows) ==
    IF rows = <<>> THEN map
    ELSE build_order_tracking_map(tracking_row(map, Head(rows)), Tail(rows))

\* int(x): the digits of x as a number; ValueError is raised otherwise
is_int_literal(x) ==
    LET t == strip(x) IN t # <<>> /\ \A i \in DOMAIN t : IsDigit(t[i])

RECURSIVE int(_)
int(x) ==
    LET t == strip(x)
    IN IF t = <<>> THEN 0
       ELSE 10 * int(SubSeq(t, 1, Len(t) - 1))
            + (CHOOSE d \in 0..9 : Digits[d + 1] = t[Len(t)])

\* batch_updates[i:i+20] for i in range(0, len(batch_updates), 20)
RECURSIVE tracking_batches(_)
tracking_batches(batch_updates) ==
    IF batch_updates = <<>> THEN <<>>
    ELSE <<SubSeq(batch_updates, 1, Min(20, Len(batch_updates)))>>
         \o tracking_batches(SubSeq(batch_updates, Min(20, Len(batch_updates)) + 1,
                                    Len(batch_updates)))

\* st: the batches posted so far, and whether an exception has ended the run
process_batch_for_site(st, orders, site_name) ==
    IF st.crashed \/ orders = <<>> \/ ~get_woocommerce_auth(site_name)
    THEN st
    ELSE IF \E i \in DOMAIN orders : ~is_int_literal(orders[i].order_id)
    THEN [st EXCEPT !.crashed = TRUE]
    ELSE [st EXCEPT !.sent = Append(@,
             [site |-> site_name, bucket |-> "tracking", status |-> "shipping",
              order_ids |-> [i \in DOMAIN orders |-> int(orders[i].order_id)],
              meta_data |-> [i \in DOMAIN orders |->
                                [dlv_code |-> orders[i].carrier_code,
                                 dlv_name |-> orders[i].carrier_name,
                                 sheet_no |-> orders[i].tracking_number]]])]

update_woocommerce_batch(st, batch_data) ==
    LET mini_orders == SelectSeq(batch_data, LAMBDA item : item.site = MINI)
        dok_orders == SelectSeq(batch_data, LAMBDA item : item.site = DOK)
    IN process_batch_for_site(process_batch_for_site(st, mini_orders, MINI),
                              dok_orders, DOK)

RECURSIVE update_batches(_, _)
update_batches(st, batches) ==
    IF batches = <<>> THEN st
    ELSE update_batches(update_woocommerce_batch(st, Head(batches)), Tail(batches))

\* the cells of a tracking sheet, as the Sheets API returns them
D500 == <<"D", "5", "0", "0">>
\* the sheets of at most MaxSheetRows rows; the rows of one sheet share the
\* address and country-code cells: a Korean address, a long Latin address
\* without and with a country code; and the sheets of one row with an address
\* naming Tokyo and the code kr, a short address naming Tokyo with a blank
\* code, a Latin address of 10 characters, a Latin spelling of Busan, a
\* Hangul word before a Latin address
SheetPool ==
    LET OrderCells ==
            {D500, <<"S", "5", "0", "0">>, D500 \o <<"-", "1">>,
             <<" ">> \o D500 \o <<" ">>, <<"5", "0", "0">>, <<"D", "X">>, <<>>}
        TrackingCells ==
            {<<"1", "1", "1">>, <<" ", "2", "2", "2">>, <<"N", "a", "N">>}
        SheetKinds ==
            {[addr |-> ShipKorean.address_1, cc |-> <<>>],
             [addr |-> <<"1", " ", "M", "a", "i", "n", " ", "S", "t", ",", " ", "N", "Y">>,
              cc |-> <<>>],
             [addr |-> <<"1", " ", "M", "a", "i", "n", " ", "S", "t", ",", " ", "N", "Y">>,
              cc |-> <<"u", "s">>]}
        RowKinds ==
            {[addr |-> <<"1", " ", "M", "a", "i", "n", " ", "S", "t", ",", " ",
                         "T", "o", "k", "y", "o">>,
              cc |-> <<"k", "r">>],
             [addr |-> <<"T", "o", "k", "y", "o">>, cc |-> <<" ">>],
             [addr |-> <<"1", " ", "M", "a", "i", "n", " ", "S", "t", ".">>, cc |-> <<>>],
             [addr |-> <<"B", "u", "s", "a", "n", " ", "1">>, cc |-> <<>>],
             [addr |-> <<"<seo>", " ", "1", " ", "M", "a", "i", "n", " ", "S", "t", ",",
                         " ", "N", "Y">>,
              cc |-> <<>>]}
        SheetRows(kind) ==
            {[order |-> o, tracking |-> t, addr |-> kind.addr, cc |-> kind.cc] :
                o \in OrderCells, t \in TrackingCells}
    IN UNION {UNION {[1..n -> SheetRows(kind)] : n \in 1..MaxSheetRows} :
                 kind \in SheetKinds}
       \cup UNION {[1..1 -> SheetRows(kind)] : kind \in RowKinds}

\* process_tracking_updates up to the download of the day's sheet
process_tracking_updates_begin ==
    /\ pc = "tracking_begin"
    /\ \E outcome \in {"skip", "no_sheet", "download_failed", "missing_columns", "ok"} :
         IF outcome = "ok"
         THEN \E rows \in SheetPool : sheet' = rows /\ pc' = "tracking_rows"
         ELSE pc' = "tracking_done" /\ UNCHANGED sheet
    /\ UNCHANGED <<site, env, df, shipping_df, ems, dom, results, sent, runs,
                   order_tracking_map, friend, main_calls, calendar, windows>>

\* the loop over the rows of the sheet
process_tracking_updates_rows ==
    /\ pc = "tracking_rows"
    /\ order_tracking_map' = build_order_tracking_map(NoTracking, sheet)
    /\ pc' = "tracking_batch"
    /\ UNCHANGED <<site, env, df, shipping_df, ems, dom, results, sent, runs,
                   sheet, friend, main_calls, calendar, windows>>

\* the batches of 20 posted to the stores
process_tracking_updates_batch ==
    /\ pc = "tracking_batch"
    /\ LET batch_updates == order_tracking_map.records
           st == update_batches([sent |-> sent, crashed |-> FALSE],
                                tracking_batches(batch_updates))
       IN /\ sent' = st.sent
          /\ pc' = IF st.crashed THEN "tracking_crashed" ELSE "tracking_done"
    /\ UNCHANGED <<site, env, df, shipping_df, ems, dom, results, runs, sheet,
                   order_tracking_map, friend, main_calls, calendar, windows>>

InitTracking ==
    /\ pc = "tracking_begin"
    /\ site = DOK
    /\ env \in {e \in EnvSet : e.GOOGLE_MAPS_API_KEY}
    /\ df = <<>> /\ shipping_df = <<>>
    /\ ems = <<>>
    /\ dom = [s \in Sites |-> <<>>]
    /\ results = reset
    /\ sent = <<>>
    /\ runs = 1
    /\ sheet = <<>>
    /\ order_tracking_map = NoTracking
    /\ main_calls = <<>>
    /\ calendar = NoCalendar
    /\ windows = <<>>
    /\ friend = NoFriend

NextTracking ==
    \/ process_tracking_updates_begin
    \/ process_tracking_updates_rows
    \/ process_tracking_updates_batch

SpecTracking == InitTracking /\ [][NextTracking]_vars

(***************************************************************************)
(* happy_together_processor.py                                             *)
(***************************************************************************)
\* the matches of \b[A-Za-z0-9._%+-]+@[A-Za-z0-9.-]+\.[A-Z|a-z]{2,}\b that start
\* at position i, as <<position of the last dot, end>>
email_matches_at(note, i) ==
    IF ~WordBoundary(note, i) THEN {}
    ELSE LET IsLocalChar(c) ==
                 IsLetter(c) \/ IsDigit(c) \/ c \in {".", "_", "%", "+", "-"}
             IsDomainChar(c) == IsLetter(c) \/ IsDigit(c) \/ c \in {".", "-"}
             IsTldChar(c) == IsLetter(c) \/ c = "|"
             ats == {a \in (i + 1)..Len(note) :
                        /\ note[a] = "@"
                        /\ \A k \in i..(a - 1) : IsLocalChar(note[k])}
         IN {pe \in ((i + 3)..Len(note)) \X ((i + 5)..Len(note)) :
                \E a \in ats :
                    /\ a + 1 < pe[1]
                    /\ \A k \in (a + 1)..(pe[1] - 1) : IsDomainChar(note[k])
                    /\ note[pe[1]] = "."
                    /\ pe[2] >= pe[1] + 2
                    /\ \A k \in (pe[1] + 1)..pe[2] : IsTldChar(note[k])
                    /\ WordBoundary(note, pe[2] + 1)}

\* re.findall(email_pattern, note)[0]; the match is greedy: the last dot
\* that gives a match, then the longest ending
extract_email_from_customer_note(note) ==
    IF note = <<>> THEN None
    ELSE LET starts == {i \in DOMAIN note : email_matches_at(note, i) # {}}
         IN IF starts = {} THEN None
            ELSE LET i == CHOOSE x \in starts : \A y \in starts : x <= y
                     ms == email_matches_at(note, i)
                     p == CHOOSE x \in {m[1] : m \in ms} : \A m \in ms : m[1] <= x
                     e == CHOOSE x \in {m[2] : m \in ms} :
                              /\ <<p, x>> \in ms
                              /\ \A m \in ms : m[1] = p => m[2] <= x
                 IN SubSeq(note, i, e)

per_page == 50

\* remote: the store's orders, newest first; response: the HTTP outcome;
\* the result is <<id>> for an order id and <<>> for None
check_if_friend_order_exists(remote, original_order_id, friend_email, response) ==
    IF response # "200" THEN <<>>
    ELSE LET orders == SubSeq(remote, 1, Min(per_page, Len(remote)))
             hits == {i \in DOMAIN orders :
                         /\ LowerStr(orders[i].billing_email) = LowerStr(friend_email)
                         /\ \E k \in DOMAIN orders[i].line_item_meta :
                               /\ orders[i].line_item_meta[k].key = "original_order_number"
                               /\ orders[i].line_item_meta[k].value = str(original_order_id)}
         IN IF hits = {} THEN <<>>
            ELSE <<orders[CHOOSE i \in hits : \A j \in hits : i <= j].id>>

\* the order create_new_order_for_friend posts; found: the friend is a customer
new_order_data(friend_email, product_name, original_order_id, original_customer_info, found) ==
    [status |-> IF Truthy(friend_email)
                THEN IF found THEN "shipped" ELSE "processing"
                ELSE "shipped",
     billing_email |-> IF Truthy(friend_email) THEN friend_email
                       ELSE original_customer_info.billing_email,
     line_item_meta |-> <<[key |-> "product_name", value |-> product_name],
                          [key |-> "original_order_number",
                           value |-> str(original_order_id)]>>]

STARTER_PACK == <<"<seu>", "<ta>", "<teo>", "<paek>">>

determine_product_variation(second_language, paper_type) ==
    IF paper_type = "digital" \/ paper_type = "digitalonly"
    THEN <<"1", "&", "1", "-">> \o second_language \o <<" ">> \o STARTER_PACK
         \o <<"[digital-paper]">>
    ELSE <<"1", "&", "1", "-">> \o second_language \o <<" ">> \o STARTER_PACK

\* the originating orders of the store
OriginOrders ==
    [id : OrderIds,
     item_name : {STARTER_PACK \o <<" ", "A">>, <<"B", "o", "o", "k">>},
     customer_note : {<<>>, <<"h", "i">>, <<"A", "@", "b", ".", "c", "o">>,
                      <<"t", "o", " ", "A", "@", "b", ".", "c", "o", "!">>},
     second_language : {<<>>, <<"E", "N">>},
     paper_type : {"digital", "paperdigital"},
     customer_id : {7},
     billing_email : {<<"c", "@", "d", ".", "k", "r">>}]

\* one call of process_single_order(order_id) on the originating order
process_single_order ==
    /\ pc = "friend"
    /\ friend.calls < MaxCalls
    /\ \E details \in {"200", "404"}, lookup \in {"200", "500"},
          product_id \in BOOLEAN, found \in BOOLEAN, created \in {"201", "500"},
          lowered \in BOOLEAN :
        LET o == friend.origin
            order_id == o.id
            starter_pack_item == Contains(o.item_name, STARTER_PACK)
            friend_email == extract_email_from_customer_note(o.customer_note)
            existing_order ==
                IF Truthy(friend_email)
                THEN check_if_friend_order_exists(friend.remote, order_id,
                                                  friend_email, lookup)
                ELSE <<>>
            new_product_name ==
                determine_product_variation(o.second_language, o.paper_type)
            data == new_order_data(friend_email, new_product_name, order_id,
                        [customer_id |-> o.customer_id,
                         billing_email |-> o.billing_email], found)
            stored == [data EXCEPT !.billing_email =
                                       IF lowered THEN LowerStr(@) ELSE @]
            new_order == [id |-> order_id + Len(friend.remote) + 1,
                          status |-> stored.status,
                          billing_email |-> stored.billing_email,
                          line_item_meta |-> stored.line_item_meta]
            called == [friend EXCEPT !.calls = @ + 1,
                                     !.lookup = IF env.WP /\ details = "200" /\ starter_pack_item
                                                   /\ Truthy(friend_email)
                                                THEN lookup ELSE "not made"]
        IN IF ~env.WP \/ details # "200" \/ ~starter_pack_item
           THEN friend' = [called EXCEPT !.existing = <<>>, !.returned = FALSE]
           ELSE IF existing_order # <<>>
           THEN friend' = [called EXCEPT !.existing = existing_order,
                                         !.returned = FALSE]
           ELSE IF o.second_language = <<>> \/ ~product_id \/ created # "201"
           THEN friend' = [called EXCEPT !.existing = <<>>, !.returned = FALSE]
           ELSE friend' = [called EXCEPT !.existing = <<>>, !.returned = TRUE,
                                         !.remote = <<new_order>> \o @]
    /\ UNCHANGED <<pc, site, env, df, shipping_df, ems, dom, results, sent, runs,
                   sheet, order_tracking_map, main_calls, calendar, windows>>

InitFriend ==
    /\ pc = "friend"
    /\ site = MINI
    /\ env \in {e \in EnvSet : e.GOOGLE_MAPS_API_KEY /\ e.DOK_WP}
    /\ df = <<>> /\ shipping_df = <<>>
    /\ ems = <<>>
    /\ dom = [s \in Sites |-> <<>>]
    /\ results = reset
    /\ sent = <<>>
    /\ runs = 1
    /\ sheet = <<>>
    /\ order_tracking_map = NoTracking
    /\ main_calls = <<>>
    /\ calendar = NoCalendar
    /\ windows = <<>>
    /\ friend \in {[NoFriend EXCEPT !.origin = o] : o \in OriginOrders}

SpecFriend == InitFriend /\ [][process_single_order]_vars

(***************************************************************************)
(* The EMS file of one day: successive writes of located rows              *)
(***************************************************************************)

\* the tail of process_*_international_orders on the rows of one run; df
\* keeps what the run read from the file (the local old), shipping_df the
\* rows it was given
\* the located rows a run can hand to the write: line items of a dok order
\* and of two mini orders, one of them without a country code
write_ems_file ==
    LET EmsRowPool ==
        LET row(o, c) == [order |-> o, status |-> "done", SKU |-> SkuPlain,
                          code |-> SkuPlain, raw |-> SkuPlain, name |-> <<"J", "o">>,
                          addr |-> <<"1", " ", "M", "a", "i", "n">>, cc |-> c]
            rows == {row(<<"D">> \o str(1234), <<"U", "S">>),
                     row(<<"S">> \o str(1234), <<>>),
                     row(<<"S">> \o str(1235), <<"U", "S">>)}
        IN UNION {[1..n -> rows] : n \in 1..MaxBatch}
    IN /\ pc = "merge"
       /\ runs < MaxWrites
       /\ runs' = runs + 1
       /\ \E overseas \in EmsRowPool :
             /\ shipping_df' = overseas
             /\ df' = IF ems # <<>> THEN read_excel(ems) ELSE <<>>
             /\ ems' = merge_ems(ems, overseas)
             /\ results' = add_international_orders(results, Len(merge_ems(ems, overseas)))
       /\ UNCHANGED <<pc, site, env, dom, sent, sheet, order_tracking_map, friend, main_calls,
                   calendar, windows>>

(***************************************************************************)
(* One call of update_orders_batch on a list of order numbers              *)
(***************************************************************************)

\* the requests of the call: one per chunk, with the storefront's answer
batch_requests(order_ids, status, responses) ==
    [k \in DOMAIN chunks(order_ids) |->
        [update |-> [i \in DOMAIN chunks(order_ids)[k] |->
                        [id |-> int(chunks(order_ids)[k][i]), status |-> status]],
         response |-> responses[k]]]

\* the order numbers of a status change: none, one, a full chunk, one more
\* than a full chunk, and MaxOrderIds of them
update_orders_batch_call ==
    LET OrderIdPool ==
        {[i \in 1..n |-> str(1000 + i)] : n \in {0, 1, batch_size, batch_size + 1, MaxOrderIds}}
    IN /\ pc = "batch"
       /\ \E order_ids \in OrderIdPool, status \in {"shipped", "processing"} :
            \E responses \in AllResponses(order_ids) :
               /\ df' = [i \in DOMAIN order_ids |-> [order |-> order_ids[i]]]
               /\ sent' = batch_requests(order_ids, status, responses)
               /\ results' = add_b2b_status_changes(results,
                                 update_orders_batch(order_ids, responses))
       /\ pc' = "batch_done"
       /\ UNCHANGED <<site, env, shipping_df, ems, dom, runs, sheet, order_tracking_map,
                      friend, main_calls, calendar, windows>>

(***************************************************************************)
(* download_tracking_data: the attempts of one call                        *)
(***************************************************************************)
max_retries == 3

\* the keywords looked for in the lower-cased text of the exception
retryable_keywords ==
    {<<"b", "r", "o", "k", "e", "n", " ", "p", "i", "p", "e">>,
     <<"c", "o", "n", "n", "e", "c", "t", "i", "o", "n">>,
     <<"t", "i", "m", "e", "o", "u", "t">>,
     <<"n", "e", "t", "w", "o", "r", "k">>,
     <<"e", "r", "r", "n", "o", " ", "3", "2">>}
unrecoverable_keywords ==
    {<<"p", "e", "r", "m", "i", "s", "s", "i", "o", "n">>,
     <<"n", "o", "t", " ", "f", "o", "u", "n", "d">>,
     <<"4", "0", "4">>,
     <<"4", "0", "3">>,
     <<"4", "0", "1">>}
has_keyword(error_msg, keywords) ==
    \E keyword \in keywords : Contains(LowerStr(error_msg), keyword)

\* one pass of the loop body; runs counts the attempts made, sent keeps what
\* each attempt ended with
\* the texts of the exceptions an attempt can raise: connection reset, read
\* timeout, broken pipe, unreachable network, HTTP 403, HTTP 404, HTTP 500
download_tracking_data_attempt ==
    LET ErrorMessages ==
        {<<"C", "o", "n", "n", "e", "c", "t", "i", "o", "n", " ", "r", "e", "s", "e", "t", " ", "b", "y", " ", "p", "e", "e", "r">>,
         <<"T", "h", "e", " ", "r", "e", "a", "d", " ", "o", "p", "e", "r", "a", "t", "i", "o", "n", " ", "t", "i", "m", "e", "d", " ", "o", "u", "t">>,
         <<"B", "r", "o", "k", "e", "n", " ", "p", "i", "p", "e">>,
         <<"N", "e", "t", "w", "o", "r", "k", " ", "i", "s", " ", "u", "n", "r", "e", "a", "c", "h", "a", "b", "l", "e">>,
         <<"4", "0", "3", " ", "c", "a", "l", "l", "e", "r", " ", "d", "o", "e", "s", " ", "n", "o", "t", " ", "h", "a", "v", "e", " ", "p", "e", "r", "m", "i", "s", "s", "i", "o", "n">>,
         <<"4", "0", "4", " ", "R", "e", "q", "u", "e", "s", "t", "e", "d", " ", "e", "n", "t", "i", "t", "y", " ", "w", "a", "s", " ", "n", "o", "t", " ", "f", "o", "u", "n", "d">>,
         <<"5", "0", "0", " ", "I", "n", "t", "e", "r", "n", "a", "l", " ", "e", "r", "r", "o", "r">>}
    IN /\ pc = "download"
       /\ runs < max_retries
       /\ runs' = runs + 1
       /\ \E outcome \in {"ok", "no_sheets", "no_values", "exception"} :
          \E error_msg \in IF outcome = "exception" THEN ErrorMessages ELSE {<<>>} :
           /\ sent' = Append(sent, [attempt |-> runs, outcome |-> outcome,
                                    error_msg |-> error_msg])
           /\ IF outcome = "ok"
              THEN \E rows \in {s \in SheetPool : Len(s) = 1} :
                       sheet' = rows /\ pc' = "downloaded"
              ELSE IF outcome \in {"no_sheets", "no_values"}
              THEN sheet' = None /\ pc' = "downloaded"
              ELSE IF has_keyword(error_msg, retryable_keywords) /\ runs < max_retries - 1
              THEN UNCHANGED <<pc, sheet>>
              ELSE IF has_keyword(error_msg, unrecoverable_keywords)
                      \/ runs + 1 = max_retries
              THEN sheet' = None /\ pc' = "downloaded"
              ELSE UNCHANGED <<pc, sheet>>
       /\ UNCHANGED <<site, env, df, shipping_df, ems, dom, results, order_tracking_map,
                      friend, main_calls, calendar, windows>>

(***************************************************************************)
(* process_overseas_addresses on one row whose address has free text       *)
(***************************************************************************)

\* sent keeps the geocoder's answer
\* answers with a result in the United States: all components, the route
\* alone, the locality alone, no component
process_overseas_addresses_call ==
    LET GeoFound ==
        LET found(components) ==
                [http |-> "200", status |-> "OK", results |-> TRUE,
                 country_code |-> <<"U", "S">>, components |-> components]
        IN {found([NoComponents EXCEPT
                      !.street_number = <<"1">>,
                      !.route = <<"M", "a", "i", "n", " ", "S", "t">>,
                      !.locality = <<"N", "Y">>,
                      !.postal_code = <<"1", "0", "0", "0", "1">>,
                      !.country = <<"U", "n", "i", "t", "e", "d", " ", "S", "t", "a", "t", "e", "s">>]),
            found([NoComponents EXCEPT !.route = <<"M", "a", "i", "n", " ", "S", "t">>]),
            found([NoComponents EXCEPT !.locality = <<"N", "Y">>]),
            found(NoComponents)}
    IN /\ pc = "locate"
       /\ \E response \in GeoFound :
             /\ shipping_df' = process_overseas_addresses(
                                   df, env.GOOGLE_MAPS_API_KEY, [i \in DOMAIN df |-> response])
             /\ sent' = <<response>>
       /\ pc' = "located"
       /\ UNCHANGED <<site, env, df, ems, dom, results, runs, sheet, order_tracking_map,
                      friend, main_calls, calendar, windows>>

(***************************************************************************)
(* clean_korean_address on the addresses of the domestic manifest          *)
(***************************************************************************)

\* df: the orders with a Korean address, shipping_df: the same rows after
\* clean_korean_address
clean_korean_address_call ==
    /\ pc = "clean"
    /\ LET domestic == SelectSeq(df, LAMBDA r : is_korean_address(r.addr))
       IN /\ df' = domestic
          /\ shipping_df' = clean_addresses(domestic)
    /\ pc' = "cleaned"
    /\ UNCHANGED <<site, env, ems, dom, results, sent, runs, sheet, order_tracking_map,
                   friend, main_calls, calendar, windows>>

(***************************************************************************)
(* is_pure_digital_product                                                 *)
(***************************************************************************)
\* every SKU ending with the tag is pure digital, whatever its components
is_pure_digital_product_by_tag_alone(sku) ==
    sku # NaN /\ sku # <<>> /\ sku[Len(sku)] = TagDigital

\* a SKU is a sequence of tokens, a tag is one token: endswith('[digital]')
\* holds when the last token is the tag
is_pure_digital_product(sku) ==
    LET endswith_tag(c) == c # <<>> /\ c[Len(c)] = TagDigital
        components == split_on(sku, "/")
        physical_components == SelectSeq(components, LAMBDA c : ~endswith_tag(c))
    IN IF sku = NaN THEN FALSE
       ELSE IF ~endswith_tag(sku) THEN FALSE
       ELSE IF (\E i \in DOMAIN sku : sku[i] = "/") /\ Len(physical_components) >= 3
       THEN FALSE
       ELSE TRUE

\* df: one row with the SKU; shipping_df: the row with the verdict
is_pure_digital_product_call ==
    /\ pc = "sku"
    /\ shipping_df' = [i \in DOMAIN df |->
                          [SKU |-> df[i].SKU,
                           pure_digital |-> is_pure_digital_product(df[i].SKU)]]
    /\ pc' = "sku_done"
    /\ UNCHANGED <<site, env, df, ems, dom, results, sent, runs, sheet, order_tracking_map,
                   friend, main_calls, calendar, windows>>

(***************************************************************************)
(* is_korean_address on an address line                                    *)
(***************************************************************************)
\* df: one row with the address; shipping_df: the row with the verdict
is_korean_address_call ==
    /\ pc = "korean"
    /\ shipping_df' = [i \in DOMAIN df |->
                          [addr |-> df[i].addr, korean |-> is_korean_address(df[i].addr)]]
    /\ pc' = "korean_done"
    /\ UNCHANGED <<site, env, df, ems, dom, results, sent, runs, sheet, order_tracking_map,
                   friend, main_calls, calendar, windows>>

(***************************************************************************)
(* build_clean_address on a shipping record, and on its own result         *)
(***************************************************************************)
\* df: the shipping record; shipping_df: the record, the address built from
\* it, and the address built from that address given as address_1
build_clean_address_call ==
    /\ pc = "address"
    /\ shipping_df' = [i \in DOMAIN df |->
                          LET address == build_clean_address(df[i])
                          IN [shipping |-> df[i],
                              address |-> address,
                              again |-> build_clean_address(
                                            [NoShipping EXCEPT !.address_1 = address])]]
    /\ pc' = "address_done"
    /\ UNCHANGED <<site, env, df, ems, dom, results, sent, runs, sheet, order_tracking_map,
                   friend, main_calls, calendar, windows>>

(***************************************************************************)
(* The scheduled runs of consecutive days                                  *)
(***************************************************************************)
\* the first run is on a Monday; the API table holds up to MaxHolidays days
\* in a row, starting on any day of that week; the table in the code is the
\* same or lacks them; the custom holidays are none or the first Wednesday
InitDays ==
    /\ pc = "scheduled"
    /\ site = DOK
    /\ env \in {e \in EnvSet : e.GOOGLE_MAPS_API_KEY /\ e.DOK_WP /\ e.WP}
    /\ df = <<>> /\ shipping_df = <<>>
    /\ ems = <<>>
    /\ dom = [s \in Sites |-> <<>>]
    /\ results = reset
    /\ sent = <<>>
    /\ runs = 0
    /\ sheet = <<>>
    /\ order_tracking_map = NoTracking
    /\ main_calls = <<>>
    /\ friend = NoFriend
    /\ windows = <<>>
    /\ \E from \in 21..27, days \in 0..MaxHolidays :
          LET holidays == from..(from + days - 1)
          IN calendar \in [today_kst : {21},
                           holidays : {holidays},
                           fallback_holidays : {holidays, {}},
                           CUSTOM_HOLIDAYS : {{}, {23}}]

SpecDays == InitDays /\ [][main_scheduled]_vars

(***************************************************************************)
(* Single calls: each behaviour is one of the calls above on its inputs    *)
(***************************************************************************)
\* AddressLines: address lines of 1..MaxSegments comma-separated segments a
\* customer can write (a company, a building named after the street, the
\* street, the city, a care-of line); PieceLines: address lines of
\* 1..MaxPieces pieces (a Hangul word, the country as code and as name, a
\* comma, a blank); SkuLines: SKUs of 1..MaxSkuTokens tokens (a product code,
\* the digital tag, a slash) and the missing SKU; ShippingPool: shipping
\* records whose address lines repeat a word or carry blanks, whose city and
\* state are equal, contained in one another or unrelated, and whose country
\* is a two-letter code as the storefront returns it; WordLines: address
\* lines of 1..MaxWords pieces written one after the other (a Hangul
\* syllable, the code KR in two spellings, a word with R and K, the country
\* name, a blank, a hyphen, an underscore, a digit)
InitCalls ==
    LET AddressSegments ==
            {<<"A", "C", "M", "E">>,
             <<"M", "a", "i", "n", " ", "T", "o", "w", "e", "r">>,
             <<"1", " ", "M", "a", "i", "n", " ", "S", "t">>,
             <<"N", "Y">>,
             <<"c", "/", "o", " ", "B", "o", "b">>}
        AddressLines ==
            {join(segs, <<",", " ">>) :
                segs \in UNION {[1..n -> AddressSegments] : n \in 1..MaxSegments}}
        AddressPieces ==
            {<<"<seo>">>, <<"K", "R">>, <<"K", "o", "r", "e", "a">>, <<",">>, <<" ">>}
        PieceLines ==
            {join(pieces, <<>>) :
                pieces \in UNION {[1..n -> AddressPieces] : n \in 1..MaxPieces}}
        SkuLines ==
            UNION {[1..n -> {"X", TagDigital, "/"}] : n \in 1..MaxSkuTokens} \cup {NaN}
        ShippingPool ==
            {[NoShipping EXCEPT !.address_1 = a1, !.address_2 = a2, !.city = c,
                                !.state = s, !.country = k] :
                a1 \in {<<>>, <<"1", " ", "M", "a", "i", "n">>,
                        <<"1", " ", "M", "a", "i", "n", " ", "M", "a", "i", "n">>,
                        <<" ", "1", " ", " ", "M", "a", "i", "n", " ">>,
                        <<"N", "Y", " ", "1">>},
                a2 \in {<<>>, <<"M", "a", "i", "n">>, <<"A">>},
                c \in {<<>>, <<"N", "Y">>, <<"N", "Y", "C">>, <<"<seo>", "<ul>">>,
                       <<"<seo>", "<ul>", "<si>">>},
                s \in {<<>>, <<"N", "Y">>, <<"N", "Y", "C">>, <<"<seo>", "<ul>", "<si>">>},
                k \in {<<>>, <<"K", "R">>, <<"k", "r">>, <<"U", "S">>}}
        WordLines ==
            {join(words, <<>>) :
                words \in UNION {[1..n -> {<<"<seo>">>, <<"K", "R">>, <<"k", "R">>,
                                           <<"D", "A", "R", "K">>, <<"K", "o", "r", "e", "a">>,
                                           <<" ">>, <<"-">>, <<"_">>, <<"1">>}] :
                                 n \in 1..MaxWords}}
        one_order(lines) ==
            {convert_orders_to_dataframe(
                 <<Order(1234, <<SkuPlain>>, [NoShipping EXCEPT !.address_1 = a])>>) :
               a \in lines}
    IN /\ pc \in {"merge", "batch", "download", "locate", "clean", "sku", "address",
                   "korean"}
       /\ site = MINI
       /\ env \in {e \in EnvSet : e.GOOGLE_MAPS_API_KEY /\ e.DOK_WP /\ e.WP}
       /\ df \in CASE pc = "locate" -> one_order(AddressLines)
                   [] pc = "clean" -> one_order(PieceLines)
                   [] pc = "sku" -> {<<[SKU |-> sku]>> : sku \in SkuLines}
                   [] pc = "address" -> {<<shipping>> : shipping \in ShippingPool}
                   [] pc = "korean" -> {<<[addr |-> addr]>> : addr \in WordLines}
                   [] OTHER -> {<<>>}
       /\ shipping_df = <<>>
       /\ ems = <<>>
       /\ dom = [s \in Sites |-> <<>>]
       /\ results = reset
       /\ sent = <<>>
       /\ runs = 0
       /\ sheet = <<>>
       /\ order_tracking_map = NoTracking
       /\ main_calls = <<>>
       /\ calendar = NoCalendar
       /\ windows = <<>>
       /\ friend = NoFriend

NextCalls ==
    \/ write_ems_file
    \/ update_orders_batch_call
    \/ download_tracking_data_attempt
    \/ process_overseas_addresses_call
    \/ clean_korean_address_call
    \/ is_pure_digital_product_call
    \/ build_clean_address_call
    \/ is_korean_address_call

SpecCalls == InitCalls /\ [][NextCalls]_vars

(***************************************************************************)
(* Claims                                                                  *)
(***************************************************************************)
manifest_rows == UNION {Range(dom[s]) : s \in Sites} \cup Range(ems)

\* C1: a write of the day's EMS manifest adds no row whose prefixed order
\* number an earlier run already wrote to the file.
C1_EmsNoOrderTwice ==
    [][\A i \in (Len(ems) + 1)..Len(ems') :
          \A j \in 1..Len(ems) : ems'[i].order # ems[j].order]_vars

\* C2: every order id the digital status change sends for 'shipped' belongs
\* to an order whose every line item is digital-tagged.
C2_DigitalOnlyPureOrders ==
    \A k \in DOMAIN sent :
        (sent[k].site = DOK /\ sent[k].bucket = "digital") =>
            \A n \in DOMAIN sent[k].order_ids :
                \A r \in Range(order_items(df, sent[k].order_ids[n])) :
                    has_tag(r, TagDigital)

\* C3: every order id the reservation status change sends for 'processing'
\* belongs to an order with no digital and no untagged (physical) item.
C3_ReservationOnlyPureOrders ==
    \A k \in DOMAIN sent :
        (sent[k].site = DOK /\ sent[k].bucket = "reservation") =>
            \A n \in DOMAIN sent[k].order_ids :
                \A r \in Range(order_items(df, sent[k].order_ids[n])) :
                    ~has_tag(r, TagDigital) /\ ~is_physical(r)

\* C4: in process_site_orders no manifest is written before the reservation
\* status change has run, and no line item carrying the reservation tag is a
\* row of the domestic or the EMS manifest.
C4_ReservationNeverOnManifest ==
    /\ pc \in {"site_begin", "reservation"} => (dom[site] = <<>> /\ ems = <<>>)
    /\ \A r \in manifest_rows : ~str_contains(r.raw, TagReservation)

\* C5: a line item whose raw SKU contains a tag anywhere carries that tag in
\* the column every bucket-membership test reads.
C5_TagsOnFullRawSku ==
    \A r \in Range(df) : \A tag \in Tags :
        str_contains(r.raw, tag) => str_contains(r.SKU, tag)

\* C6: once a site is processed, a line item with raw SKU 'PROD-A[B2B]' and a
\* domestic address is on neither manifest and its order id is in a B2B
\* status-change batch.
C6_B2BAfterHyphenScenario ==
    pc = "site_end" =>
        \A r \in Range(df) :
            (r.raw = SkuB2BAfterHyphen /\ is_korean_address(r.addr)) =>
                /\ \A m \in manifest_rows : m.raw # r.raw
                /\ \E k \in DOMAIN sent :
                      /\ sent[k].bucket = "b2b"
                      /\ \E n \in DOMAIN sent[k].order_ids :
                            sent[k].order_ids[n] = r.order

\* C10: an address the geocoder resolves to 'KR' comes back unchanged with
\* 'KR', and no row with geocoder country code 'KR' is on the EMS manifest.
C10_GeocodedKRNotOnEms ==
    /\ \A r \in Range(df) :
          LET n == normalize_address_with_google_maps(r.addr, TRUE, GeoKR)
          IN r.addr # <<>> => (n.address = r.addr /\ n.country_code = KR)
    /\ \A r \in Range(ems) : r.cc # KR

\* the rows of the sheet the loop does not skip as empty: order and tracking
\* cells non-blank, the tracking cell not reading nan/none
row_has_numbers(i) ==
    /\ strip(sheet[i].order) # <<>>
    /\ strip(sheet[i].tracking) # <<>>
    /\ LowerStr(strip(sheet[i].tracking)) \notin nan_strings

map_built == pc \in {"tracking_batch", "tracking_done", "tracking_crashed"}

\* the rows that reference the (site, clean order id) of a record
rows_of(rec) ==
    {i \in DOMAIN sheet :
        /\ row_has_numbers(i)
        /\ parse_order_number(strip(sheet[i].order)) =
               [clean_order_id |-> rec.order_id, site |-> rec.site]}

last_row(rows) == CHOOSE i \in rows : \A j \in rows : j <= i

\* C8: the batch built from a sheet has at most one record per (site, clean
\* order id), and the record holds the tracking number of the last row of the
\* sheet that references that (site, clean order id).
C8_OneRecordLastRowWins ==
    map_built =>
        LET records == order_tracking_map.records
        IN /\ \A i, j \in DOMAIN records :
                (records[i].site = records[j].site
                 /\ records[i].order_id = records[j].order_id) => i = j
           /\ \A i \in DOMAIN records :
                /\ rows_of(records[i]) # {}
                /\ records[i].tracking_number =
                       strip(sheet[last_row(rows_of(records[i]))].tracking)

C8_Witness ==
    /\ pc = "tracking_done"
    /\ Len(sheet) = 2
    /\ Len(order_tracking_map.records) = 1
    /\ rows_of(order_tracking_map.records[1]) = {1, 2}
    /\ strip(sheet[1].tracking) # strip(sheet[2].tracking)
    /\ sent # <<>>

prefix_site(c) == IF c = "S" THEN MINI ELSE DOK

\* C9: an order number rendered as 'S' or 'D' followed by the numeric id is
\* parsed back to (id, site), what follows the first hyphen is dropped, and an
\* order number that begins with neither letter gives (None, None) and no
\* record in the batch.
C9_ParseInvertsRendering ==
    map_built =>
        \A i \in DOMAIN sheet :
            LET o == strip(sheet[i].order)
                parsed == parse_order_number(o)
                id == parsed.clean_order_id
            IN IF o = <<>> \/ o[1] \notin {"S", "D"}
               THEN /\ parsed = [clean_order_id |-> None, site |-> None]
                    /\ \A k \in DOMAIN order_tracking_map.records :
                          order_tracking_map.records[k].original_order # o
               ELSE /\ parsed.site = prefix_site(o[1])
                    /\ \A k \in DOMAIN id : id[k] # "-"
                    /\ Len(id) + 1 <= Len(o)
                    /\ SubSeq(o, 2, Len(id) + 1) = id
                    /\ (Len(o) > Len(id) + 1 => o[Len(id) + 2] = "-")
                    /\ is_int_literal(id) =>
                          parse_order_number(
                              add_prefix(<<[order |-> str(int(id))]>>, o[1])[1].order)
                          = [clean_order_id |-> str(int(id)), site |-> prefix_site(o[1])]
                    /\ (row_has_numbers(i) /\ id # <<>>) =>
                          \E k \in DOMAIN order_tracking_map.records :
                              /\ order_tracking_map.records[k].order_id = id
                              /\ order_tracking_map.records[k].site = prefix_site(o[1])

C9_Witness ==
    /\ pc = "tracking_done"
    /\ Len(sheet) = 2
    /\ sheet[1].order = D500 \o <<"-", "1">>
    /\ sheet[2].order = <<"5", "0", "0">>
    /\ row_has_numbers(1) /\ row_has_numbers(2)
    /\ Len(order_tracking_map.records) = 1
    /\ order_tracking_map.records[1].order_id = <<"5", "0", "0">>
    /\ order_tracking_map.records[1].site = DOK

promotional_orders ==
    {i \in DOMAIN friend.remote :
        \E k \in DOMAIN friend.remote[i].line_item_meta :
            /\ friend.remote[i].line_item_meta[k].key = "original_order_number"
            /\ friend.remote[i].line_item_meta[k].value = str(friend.origin.id)}

\* C7: calls of process_single_order on one originating order create at most
\* one promotional order, and a call whose duplicate check finds the earlier
\* order creates nothing and records no error.
C7_FriendOrderAtMostOnce ==
    [][/\ Cardinality(promotional_orders') <= 1
       /\ (friend'.calls # friend.calls /\ friend'.existing # <<>>) =>
              (friend'.remote = friend.remote /\ results'.errors = results.errors)]_vars

\* the rows that reach the two recipient filters of the international step
ems_candidates == overseas_physical(overseas_addresses(shipping_df))

\* pair = <<eligible, excluded>> splits input: nothing lost, nothing in both
is_partition(input, pair) ==
    /\ Len(pair[1]) + Len(pair[2]) = Len(input)
    /\ Range(pair[1]) \cap Range(pair[2]) = {}
    /\ Range(pair[1]) \cup Range(pair[2]) = Range(input)

warned(issue, r) ==
    \E w \in Range(results.warnings) :
        w.issue = issue /\ w.site = site /\ r.order \in Range(w.orders)

\* C11: both recipient filters split their input into two disjoint parts, and
\* once the international step has run every candidate row is either on the
\* EMS manifest or listed by order number in a warning of the results: the
\* rows with a Hangul recipient name in a name warning, the others with a
\* non-English address in an address warning.
C11_ExcludedOrdersAreWarned ==
    LET by_name == filter_korean_recipients(ems_candidates)
        by_addr == filter_non_english_addresses(by_name[1])
    IN /\ is_partition(ems_candidates, by_name)
       /\ is_partition(by_name[1], by_addr)
       /\ pc \in {"digital", "b2b", "site_end"} =>
             /\ \A r \in Range(by_name[2]) : warned("korean_recipient", r)
             /\ \A r \in Range(by_addr[2]) : warned("non_english_address", r)
             /\ \A r \in Range(ems_candidates) :
                   \/ \E m \in Range(ems) : Tail(m.order) = r.order /\ m.raw = r.raw
                   \/ warned("korean_recipient", r)
                   \/ warned("non_english_address", r)

\* a storefront is processed, one order was excluded for its address script
\* and none was written
C11_Witness ==
    /\ pc = "site_end"
    /\ ems_candidates # <<>>
    /\ ems = <<>>
    /\ \E w \in Range(results.warnings) : w.issue = "non_english_address"

\* row r of the DataFrame is a row of the EMS manifest (which carries the
\* storefront's letter in front of the order number)
on_ems(r) == \E m \in Range(ems) : Tail(m.order) = r.order /\ m.raw = r.raw

international_step_done == pc \in {"digital", "b2b", "site_end"}

\* C12: once the international step has run, a completed line item is on the
\* EMS manifest exactly if its address is non-empty and not Korean, its SKU
\* carries neither the B2B nor the digital tag, its recipient name has no
\* Hangul and its address has no non-English character.
C12_EmsMembership ==
    international_step_done =>
        \A r \in Range(df) :
            on_ems(r) <=>
                /\ r.addr # NaN /\ strip(r.addr) # <<>>
                /\ ~is_korean_address(r.addr)
                /\ ~str_contains(r.raw, TagB2B)
                /\ ~str_contains(r.raw, TagDigital)
                /\ ~has_korean_characters(r.name)
                /\ ~has_non_english_characters(r.addr)

\* row r of the DataFrame is a row of its storefront's domestic manifest
on_domestic(r) == \E m \in Range(dom[site]) : Tail(m.order) = r.order /\ m.raw = r.raw

\* C13: once the mini store's manifests are written, a line item is on the
\* domestic manifest exactly if its address is Korean and its SKU carries
\* neither the B2B nor the digital tag, and no line item is on both the
\* domestic and the EMS manifest.
C13_DomesticMembership ==
    (site = MINI /\ international_step_done) =>
        \A r \in Range(df) :
            /\ on_domestic(r) <=>
                  /\ is_korean_address(r.addr)
                  /\ ~str_contains(r.raw, TagB2B)
                  /\ ~str_contains(r.raw, TagDigital)
            /\ ~(on_domestic(r) /\ on_ems(r))

\* C14: once the dok store is processed, every order with at least one line
\* item carrying the B2B tag is in the B2B batch sent for 'shipped', whatever
\* its other line items are.
C14_B2BPlainTagMatch ==
    (pc = "site_end" /\ site = DOK) =>
        \A r \in Range(df) :
            str_contains(r.raw, TagB2B) =>
                \E k \in DOMAIN sent :
                    /\ sent[k].bucket = "b2b" /\ sent[k].status = "shipped"
                    /\ r.order \in Range(sent[k].order_ids)

\* what one write of rows into a freshly created file leaves in the file
single_write(rows) == merge_ems(<<>>, rows)

\* the rows of a file as a bag
bag_of(rows) == [x \in Range(rows) |-> Cardinality({i \in DOMAIN rows : rows[i] = x})]

\* the rows of the last write, with the columns of the manifest
rows_written == manifest_columns(shipping_df)

\* C15 as stated: a write into a day without a file leaves exactly the rows
\* written, and a write of rowsB after a write of rowsA leaves the file a
\* single write of rowsA + rowsB would leave, row for row.
C15_MergeAsOneWrite ==
    (pc = "merge" /\ runs > 0) =>
        /\ df = <<>> => bag_of(ems) = bag_of(to_excel(rows_written))
        /\ ems = single_write(df \o rows_written)

\* C15 amended: the second write keeps the file's rows in place and puts the
\* new rows, sorted among themselves, behind them; the file holds the same
\* rows as after a single write of rowsA + rowsB, in the same order if the
\* file was in sorted order and no new order number sorts before one in it.
C15_MergeAppendsSortedBatch ==
    (pc = "merge" /\ runs > 0) =>
        /\ df = <<>> => bag_of(ems) = bag_of(to_excel(rows_written))
        /\ ems = to_excel(df) \o single_write(rows_written)
        /\ bag_of(ems) = bag_of(single_write(df \o rows_written))
        /\ (/\ to_excel(df) = single_write(df)
            /\ \A a \in Range(df), b \in Range(rows_written) :
                  ~StrLess(b.order, a.order)) =>
              ems = single_write(df \o rows_written)

\* two writes: the mini order first, then a dok order, which sorts before it
C15_Witness ==
    /\ pc = "merge" /\ runs = 2
    /\ Len(ems) = 2
    /\ Head(ems[1].order) = "S" /\ Head(ems[2].order) = "D"

\* the ids of the requests sent, one request after the other
RECURSIVE ids_sent(_)
ids_sent(requests) ==
    IF requests = <<>> THEN <<>>
    ELSE [i \in DOMAIN Head(requests).update |-> Head(requests).update[i].id]
         \o ids_sent(Tail(requests))

\* the ids a request's answer confirms: none unless the answer is a 200
confirmed_ids(request) ==
    IF request.response.http = "200"
    THEN {i \in DOMAIN request.response.update : request.response.update[i]}
    ELSE {}

RECURSIVE confirmed_up_to(_, _)
confirmed_up_to(requests, k) ==
    IF k = 0 THEN 0
    ELSE confirmed_up_to(requests, k - 1) + Cardinality(confirmed_ids(requests[k]))

\* C16: after a call of update_orders_batch the requests sent carry every
\* given order id once and in order, each request at most 20 of them, whatever
\* the answers to the earlier requests were, and the count returned is the sum
\* of the ids confirmed by the answers.
C16_ChunksIndependent ==
    pc = "batch_done" =>
        /\ ids_sent(sent) = [i \in DOMAIN df |-> 1000 + i]
        /\ \A k \in DOMAIN sent : Len(sent[k].update) \in 1..20
        /\ \A k \in DOMAIN sent : k < Len(sent) => Len(sent[k].update) = 20
        /\ results.b2b_status_changes = confirmed_up_to(sent, Len(sent))

\* three requests, the first answered by an error status, the second by an
\* exception, the third confirmed
C16_Witness ==
    /\ pc = "batch_done"
    /\ Len(sent) = 3
    /\ sent[1].response.http = "500"
    /\ sent[2].response.http = "exception"
    /\ sent[3].response.http = "200"
    /\ results.b2b_status_changes = 1

\* attempt k ended with an exception
failed_attempt(k) == sent[k].outcome = "exception"

\* C17: a call of download_tracking_data makes at most max_retries attempts
\* and returns None once they have all failed; every attempt that is followed
\* by another one failed with an error of the transient class, and an attempt
\* that failed with a permission or not-found error is the last one.
C17_RetryOnlyTransient ==
    pc \in {"download", "downloaded"} =>
        /\ Len(sent) <= max_retries
        /\ (pc = "downloaded" /\ failed_attempt(Len(sent))) => sheet = None
        /\ ~(pc = "download" /\ Len(sent) = max_retries)
        /\ \A k \in 1..(Len(sent) - 1) :
              failed_attempt(k) /\ has_keyword(sent[k].error_msg, retryable_keywords)
        /\ \A k \in DOMAIN sent :
              (failed_attempt(k) /\ has_keyword(sent[k].error_msg, unrecoverable_keywords))
                  => k = Len(sent)

\* the answers that are a failed call or no result
GeoFailures ==
    {g \in GeoResponses : g.http # "200" \/ g.status # "OK" \/ ~g.results}

\* C18: for every address of a DataFrame row, a failed or empty geocoder
\* answer makes normalize_address_with_google_maps return that address and
\* no country code, and process_overseas_addresses leaves the row as it was;
\* an EMS row without a country code carries the address of its line item.
\* The addresses of the rows are built by build_clean_address, also from a
\* shipping record with runs of blanks.
C18_GeocoderFailureKeepsAddress ==
    /\ LET spaced == build_clean_address(
                         [ShipOverseas EXCEPT
                             !.address_1 = <<" ", "1", " ", " ", "M", "a", "i", "n", " ">>])
       IN \A g \in GeoFailures :
              normalize_address_with_google_maps(spaced, TRUE, g)
                  = [address |-> spaced, country_code |-> None]
    /\ \A r \in Range(df) : \A g \in GeoFailures :
          /\ normalize_address_with_google_maps(r.addr, TRUE, g)
                = [address |-> r.addr, country_code |-> None]
          /\ ~is_korean_address(r.addr) =>
                process_overseas_addresses(<<[r EXCEPT !.cc = <<>>]>>, TRUE, <<g>>)
                    = <<[r EXCEPT !.cc = <<>>]>>
    /\ \A m \in Range(ems) :
          m.cc = <<>> =>
              \E r \in Range(df) : Tail(m.order) = r.order /\ m.raw = r.raw /\ m.addr = r.addr

\* the geocoder was asked and an EMS row was written without a country code
C18_Witness ==
    /\ pc = "site_end"
    /\ env.GOOGLE_MAPS_API_KEY
    /\ \E m \in Range(ems) : m.cc = <<>> /\ GeoFailures # {}

\* the stripped comma-separated segments of an address
segments(address) ==
    [i \in DOMAIN split_on(address, ",") |-> strip(split_on(address, ",")[i])]

\* the geocoder's fields: street address, route, locality, country, postal code
geocoder_fields(components) ==
    {(IF components.route # <<>> /\ components.street_number # <<>>
      THEN components.route \o <<" ">> \o components.street_number
      ELSE components.route),
     components.route, components.locality, components.country,
     components.postal_code} \ {<<>>}

\* segment and field match as substrings, one within the other
substring_match(segment, field) ==
    \/ Contains(LowerStr(segment), LowerStr(field))
    \/ Contains(LowerStr(field), LowerStr(segment))

\* C19: once a row's address is reconstructed from the geocoder's components,
\* every non-empty segment of the original address that is no substring match
\* of a geocoder field is a segment of the reconstructed address.
C19_FreeTextSegmentsKept ==
    pc = "located" =>
        \A seg \in Range(segments(df[1].addr)) :
            (/\ seg # <<>>
             /\ \A field \in geocoder_fields(sent[1].components) :
                    ~substring_match(seg, field))
                => seg \in Range(segments(shipping_df[1].addr))

\* one of the patterns of clean_korean_address stands in the text as a word
has_keyword_token(text) ==
    \E pat \in {KR, KOREA, SOUTH_KOREA, DAEHANMINGUK, HANGUK} :
        \E i \in DOMAIN text : WordMatchAt(text, pat, i)

\* two commas with nothing but whitespace between them
has_double_comma(text) ==
    \E i, j \in DOMAIN text :
        /\ i < j
        /\ text[i] = "," /\ text[j] = ","
        /\ \A k \in (i + 1)..(j - 1) : IsSpace(text[k])

\* the text starts or ends with a comma or a blank
has_outer_comma_or_space(text) ==
    text # <<>> /\ (Head(text) \in {",", " "} \/ text[Len(text)] \in {",", " "})

\* C20: the cleaned address of a domestic order holds no keyword (KR, KOREA,
\* SOUTH KOREA, the Korean names) as a word, no two commas separated only by
\* whitespace, and neither starts nor ends with a comma or a blank.
C20_CleanedAddressIsTidy ==
    pc = "cleaned" =>
        \A r \in Range(shipping_df) :
            /\ ~has_keyword_token(r.addr)
            /\ ~has_double_comma(r.addr)
            /\ ~has_outer_comma_or_space(r.addr)

\* the rows of the sheet have been read into order_tracking_map
rows_read == pc \in {"tracking_batch", "tracking_done", "tracking_crashed"}

\* C21: the shipping type of every record follows the strict priority: a
\* non-empty country code decides alone (overseas iff it is not KR, whatever
\* the case); otherwise an address holding an overseas keyword is overseas;
\* otherwise an address with Latin letters, no Hangul and more than 10
\* characters is overseas; otherwise domestic. The carrier is (EMS, EMS) for
\* an overseas record and (CJGLS, Korea Express) for a domestic one.
C21_ShippingTypeByPriority ==
    rows_read =>
        \A i \in DOMAIN order_tracking_map.records :
            LET rec == order_tracking_map.records[i]
                code == strip(sheet[1].cc)
                address == strip(sheet[1].addr)
                by_code == UpperStr(code) # <<"K", "R">>
                by_keyword == \E k \in DOMAIN overseas_keywords :
                                  Contains(UpperStr(address), overseas_keywords[k])
                by_script == /\ \E n \in DOMAIN address : IsLetter(address[n])
                             /\ ~\E n \in DOMAIN address : address[n] \in HangulChars
                             /\ Len(address) > 10
                international ==
                    CASE code # <<>> -> by_code
                      [] code = <<>> /\ by_keyword -> TRUE
                      [] code = <<>> /\ ~by_keyword /\ by_script -> TRUE
                      [] OTHER -> FALSE
            IN /\ rec.shipping_type = "overseas" <=> international
               /\ rec.shipping_type = "domestic" <=> ~international
               /\ <<rec.carrier_code, rec.carrier_name>> = <<"EMS", "EMS">>
                     <=> international
               /\ <<rec.carrier_code, rec.carrier_name>> = <<"CJGLS", "<daehantongun>">>
                     <=> ~international

\* a record of a sheet whose code kr decides against the keyword Tokyo
C21_Witness ==
    /\ rows_read
    /\ order_tracking_map.records # <<>>
    /\ sheet[1].cc = <<"k", "r">>
    /\ Contains(UpperStr(sheet[1].addr), <<"T", "O", "K", "Y", "O">>)
    /\ order_tracking_map.records[1].carrier_code = "CJGLS"

\* main() has made the call in the current run
called(fn, arg) == \E i \in DOMAIN main_calls : main_calls[i] = <<fn, arg>>

\* a run that was not skipped has returned
run_returned == pc = "idle" /\ main_calls # <<>>

\* C22: when the credentials of exactly one storefront are missing, a run that
\* is not skipped calls process_site_orders for the other storefront, and
\* attempts the result-summary email before it returns.
C22_ConfigErrorIsLocal ==
    (env.WP # env.DOK_WP) =>
        /\ run_returned =>
              /\ env.WP => called("process_site_orders", MINI)
              /\ env.DOK_WP => called("process_site_orders", DOK)
              /\ \E ok \in {"True", "False"} : called("send_processing_result_email", ok)
        /\ pc = "main_email" =>
              /\ env.WP => called("process_site_orders", MINI)
              /\ env.DOK_WP => called("process_site_orders", DOK)

\* a run without the credentials of the first storefront has processed the
\* second and sent the result summary
C22_Witness ==
    /\ run_returned
    /\ ~env.DOK_WP /\ env.WP
    /\ called("process_site_orders", MINI)
    /\ ~called("process_site_orders", DOK)
    /\ called("send_processing_result_email", "True")
    /\ ems # <<>>

\* the components of a SKU that do not end with the digital tag, counted on
\* the slashes: a component ends at each slash and at the end of the SKU
lacking_tag(sku) ==
    Cardinality({i \in DOMAIN sku :
                    sku[i] = "/" /\ (i = 1 \/ sku[i - 1] # TagDigital)})
    + (IF sku # <<>> /\ sku[Len(sku)] = TagDigital THEN 0 ELSE 1)

\* the verdict follows the last tag and the number of components without it
verdict_by_tag_and_components(row) ==
    row.pure_digital <=>
        /\ row.SKU # NaN
        /\ row.SKU # <<>> /\ row.SKU[Len(row.SKU)] = TagDigital
        /\ (~(\E i \in DOMAIN row.SKU : row.SKU[i] = "/") \/ lacking_tag(row.SKU) < 3)

\* C23 as stated: a SKU is pure digital if and only if it ends with the
\* digital tag and has no slash or fewer than 3 components without the tag;
\* X[digital]/X/X is not pure digital and X[digital]/X is pure digital.
C23_PureDigitalAsStated ==
    pc = "sku_done" =>
        \A row \in Range(shipping_df) :
            /\ verdict_by_tag_and_components(row)
            /\ row.SKU = <<"X", TagDigital, "/", "X", "/", "X">> => ~row.pure_digital
            /\ row.SKU = <<"X", TagDigital, "/", "X">> => row.pure_digital

\* C23 amended: a SKU is pure digital if and only if it ends with the digital
\* tag and has no slash or fewer than 3 components that do not end with the
\* tag; X[digital]/X/X and X[digital]/X do not end with the tag and are not
\* pure digital, X/X[digital] is pure digital, X/X/X/X[digital] is not.
C23_PureDigitalByLastTag ==
    pc = "sku_done" =>
        \A row \in Range(shipping_df) :
            /\ verdict_by_tag_and_components(row)
            /\ row.SKU = <<"X", TagDigital, "/", "X", "/", "X">> => ~row.pure_digital
            /\ row.SKU = <<"X", TagDigital, "/", "X">> => ~row.pure_digital
            /\ row.SKU = <<"X", "/", "X", TagDigital>> => row.pure_digital
            /\ row.SKU = <<"X", "/", "X", "/", "X", "/", "X", TagDigital>>
                  => ~row.pure_digital

\* the verdict on a bundle of three physical components and a digital one
C23_Witness ==
    /\ pc = "sku_done"
    /\ shipping_df[1].SKU = <<"X", "/", "X", "/", "X", "/", "X", TagDigital>>
    /\ ~shipping_df[1].pure_digital

(***************************************************************************)
(* C24                                                                     *)
(***************************************************************************)
\* the region tokens of a shipping record: its state, city and country
region_tokens(shipping) ==
    {strip(shipping.state), strip(shipping.city), strip(shipping.country)} \ {<<>>}

\* the words the customer wrote in the two address lines
address_words(shipping) ==
    Range(split_words(shipping.address_1)) \cup Range(split_words(shipping.address_2))

is_word_char(c) == IsLetter(c) \/ IsDigit(c) \/ c \in HangulChars \/ c = "_"

\* KR, in any case, with no word character right before or right after it
has_standalone_KR(addr) ==
    \E i \in 1..(Len(addr) - 1) :
        /\ upper(addr[i]) = "K" /\ upper(addr[i + 1]) = "R"
        /\ (i = 1 \/ ~is_word_char(addr[i - 1]))
        /\ (i + 1 = Len(addr) \/ ~is_word_char(addr[i + 2]))

\* C25: is_korean_address is true for every address with a Hangul syllable
\* and for every address with KR as a standalone word in any case; an address
\* without Hangul and without a name of Korea in which KR stands only inside
\* longer words is not Korean.
C25_KoreanByHangulOrStandaloneKR ==
    pc = "korean_done" =>
        \A row \in Range(shipping_df) :
            /\ (\E i \in DOMAIN row.addr : row.addr[i] \in HangulChars) => row.korean
            /\ has_standalone_KR(row.addr) => row.korean
            /\ /\ ~\E i \in DOMAIN row.addr : row.addr[i] \in HangulChars
               /\ ~Contains(UpperStr(row.addr), KOREA)
               /\ ~has_standalone_KR(row.addr)
               => ~row.korean

\* DARKkR and kR_1 hold KR only inside a longer word; kR-1 holds it alone
C25_Witness ==
    /\ pc = "korean_done"
    /\ shipping_df[1].addr \in {<<"D", "A", "R", "K", "k", "R">>, <<"k", "R", "_", "1">>}
    /\ ~shipping_df[1].korean

(***************************************************************************)
(* C26                                                                     *)
(***************************************************************************)
\* C26: when the first run of the day, which starts with no EMS file, has
\* returned, the international_orders counter of its results equals the
\* number of rows of the EMS manifest.
C26_InternationalCountIsManifestRows ==
    pc = "idle" /\ runs = 1 /\ main_calls # <<>>
        => results.international_orders = Len(ems)

(***************************************************************************)
(* C27                                                                     *)
(***************************************************************************)
\* the counter of a bucket of status changes
status_changes(bucket) ==
    CASE bucket = "reservation" -> results.reservation_status_changes
      [] bucket = "digital" -> results.digital_status_changes
      [] bucket = "b2b" -> results.b2b_status_changes

\* C27: in every status-change batch of a run each order id occurs at most
\* once, and the counter of the batch's bucket is at most the number of orders
\* in the batch: it counts orders, not line items.
C27_OrderOncePerBatch ==
    \A b \in DOMAIN sent :
        /\ \A i, j \in DOMAIN sent[b].order_ids :
              sent[b].order_ids[i] = sent[b].order_ids[j] => i = j
        /\ status_changes(sent[b].bucket) <= Cardinality(Range(sent[b].order_ids))

(***************************************************************************)
(* C28                                                                     *)
(***************************************************************************)
\* every holiday lookup answers by one calendar
one_calendar == calendar.holidays = calendar.fallback_holidays

C29_BackupOnlyAfterEmail ==
    /\ \A i \in DOMAIN main_calls :
          main_calls[i][1] = "backup_files_to_drive(shipping_files)"
              => i > 1 /\ main_calls[i - 1] = <<"send_shipping_files_email", "True">>
    /\ run_returned =>
          \E i \in DOMAIN main_calls : main_calls[i][1] = "send_processing_result_email"

\* a run whose manifests were sent and then backed up, and a summary email
C29_Witness ==
    /\ run_returned
    /\ \E i \in DOMAIN main_calls :
          /\ main_calls[i] = <<"send_shipping_files_email", "True">>
          /\ main_calls[i + 1][1] = "backup_files_to_drive(shipping_files)"
          /\ main_calls[i + 2][1] = "send_processing_result_email"

(***************************************************************************)
(* C30                                                                     *)
(***************************************************************************)
\* C30: a call of process_single_order whose duplicate lookup failed (a
\* response other than 200, or an exception) creates no promotional order.
C30_NoOrderAfterFailedLookup ==
    friend.lookup \notin {"200", "not made"} => ~friend.returned

====
